---- MODULE Spec2Model ----
(***************************************************************************)
(* Model of the mail -> spreadsheet synchronisation pipeline of            *)
(* src/src/lib/process-emails.ts (processEmails, fetchAndParseEmail and    *)
(* their helpers) together with the two external collaborators it talks    *)
(* to: the mail source (messages.list / messages.get) and the tabular      *)
(* store (spreadsheets.get / batchUpdate / values.batchGet / values.get /  *)
(* values.append).                                                         *)
(*                                                                         *)
(* One action per await point of the code: everything the code does        *)
(* synchronously between two awaits is part of one action.                 *)
(***************************************************************************)
EXTENDS Integers, Sequences, FiniteSets, TLC

(***************************************************************************)
(* Bounds of the model (not program constants)                             *)
(***************************************************************************)
\* number of processEmails runs in one behaviour of the multi-run specification
MaxRuns == 3
\* number of processEmails runs over the mailbox of twelve candidates
MaxBigRuns == 2
\* number of messages.get calls the mail source may reject in one behaviour
MaxGetFaults == 1
\* number of destination calls the tabular store may reject in one behaviour
MaxDestFaults == 1

(***************************************************************************)
(* Program constants                                                       *)
(***************************************************************************)
LOG_SHEET_NAME == "POA Log"
NotFound == "Not Found"
MAX_MESSAGES == 1000
MAX_RESULTS == 500
BATCH_SIZE == 10
CHUNK_SIZE == 5

\* the eight keys of keyMap / the eight fields parseEmailBody returns
Fields == {"title", "organization", "startDate", "endDate",
           "description", "time", "venue", "type"}

\* keyMap of parseActivityDetailsFromHtml: label text -> field
keyMap == [l \in {"Title of Activity:", "Name of Organization:",
                  "Start Date of Implementation:", "End Date of Implementation:",
                  "Rationale/Brief Description:", "Time of Implementation:",
                  "Venue/Platform:",
                  "Type of Implementation (Online -Social Media Posting; Google Meet; Zoom etc)/Face to Face:"} |->
             CASE l = "Title of Activity:" -> "title"
               [] l = "Name of Organization:" -> "organization"
               [] l = "Start Date of Implementation:" -> "startDate"
               [] l = "End Date of Implementation:" -> "endDate"
               [] l = "Rationale/Brief Description:" -> "description"
               [] l = "Time of Implementation:" -> "time"
               [] l = "Venue/Platform:" -> "venue"
               [] OTHER -> "type"]

(***************************************************************************)
(* Small sequence helpers                                                  *)
(***************************************************************************)
Range(s) == {s[i] : i \in DOMAIN s}

Min(a, b) == IF a <= b THEN a ELSE b

MaxOf(S) == CHOOSE x \in S : \A y \in S : y <= x

\* Array.prototype.reverse
Reverse(s) == [i \in 1..Len(s) |-> s[Len(s) + 1 - i]]

\* Array.prototype.slice(start, end) with 0-based, end-exclusive indices
Slice(s, from, to) == SubSeq(s, from + 1, Min(to, Len(s)))

\* Array.prototype.filter
FilterSeq(s, keep) ==
    LET Kept(x) == x \in keep
    IN  SelectSeq(s, Kept)

(***************************************************************************)
(* Record Extractor                                                        *)
(***************************************************************************)
\* The rows of the ".response-items" table are modelled as <<label, value>>
\* pairs (already trimmed text of the first two cells).  A later row with the
\* same label overwrites an earlier one.
\* 'label in keyMap' is also true of the names keyMap inherits from
\* Object.prototype; keyMap[label] is then a function, and the property it
\* names in details is the function's source text.
InheritedKeys == {"constructor", "toString", "hasOwnProperty"}

objectKeyOf(label) == IF label \in DOMAIN keyMap THEN keyMap[label] ELSE "function"

RECURSIVE parseActivityDetailsFromHtml(_)
parseActivityDetailsFromHtml(rows) ==
    IF rows = <<>> THEN <<>>
    ELSE LET before == parseActivityDetailsFromHtml(SubSeq(rows, 1, Len(rows) - 1))
             row    == rows[Len(rows)]
         IN  IF row[1] \in DOMAIN keyMap \cup InheritedKeys
             THEN [f \in (DOMAIN before) \cup {objectKeyOf(row[1])} |->
                     IF f = objectKeyOf(row[1]) THEN row[2] ELSE before[f]]
             ELSE before

\* the eight fields left empty
parseEmailBody_NoSentinel(rows) ==
    LET details == parseActivityDetailsFromHtml(rows)
    IN  [f \in Fields |-> IF f \in DOMAIN details THEN details[f] ELSE ""]

\* details.x || 'Not Found' : an absent key and the empty string are falsy
parseEmailBody(rows) ==
    LET details == parseActivityDetailsFromHtml(rows)
    IN  [f \in Fields |->
           IF f \in DOMAIN details /\ details[f] # "" THEN details[f] ELSE NotFound]

(***************************************************************************)
(* Date Resolver and Month Bucketer                                        *)
(***************************************************************************)
\* Result of `new Date(string)`: a calendar date [y, m, d] (m in 1..12) or
\* NaN.  The strings the Date constructor understands are given by a table.
NaN == [y |-> 0, m |-> 0, d |-> 0]

DateTable == [s \in {"2025-07-15", "2025-07-20", "2025-09-02",
                     "2025-12-10", "2026-01-05", "2025-06-30"} |->
                CASE s = "2025-07-15" -> [y |-> 2025, m |-> 7,  d |-> 15]
                  [] s = "2025-07-20" -> [y |-> 2025, m |-> 7,  d |-> 20]
                  [] s = "2025-09-02" -> [y |-> 2025, m |-> 9,  d |-> 2]
                  [] s = "2025-12-10" -> [y |-> 2025, m |-> 12, d |-> 10]
                  [] s = "2026-01-05" -> [y |-> 2026, m |-> 1,  d |-> 5]
                  [] OTHER            -> [y |-> 2025, m |-> 6,  d |-> 30]]

NewDate(s) == IF s \in DOMAIN DateTable THEN DateTable[s] ELSE NaN

Null == [y |-> -1, m |-> -1, d |-> -1]

\* a resolver that falls back to a default date instead of giving up
parseDateNoInference_Fallback(dateString) ==
    IF dateString = "" \/ dateString = NotFound \/ NewDate(dateString) = NaN
    THEN DateTable["2025-06-30"]
    ELSE NewDate(dateString)

parseDateNoInference(dateString) ==
    IF dateString = "" \/ dateString = NotFound THEN Null
    ELSE IF NewDate(dateString) = NaN THEN Null
    ELSE NewDate(dateString)

\* Date comparison a <= b
DateLeq(a, b) ==
    \/ a.y < b.y
    \/ a.y = b.y /\ a.m < b.m
    \/ a.y = b.y /\ a.m = b.m /\ a.d <= b.d

\* c.setMonth(c.getMonth() + 1), for a day of the month that every month has
NextMonth(c) == IF c.m = 12 THEN [y |-> c.y + 1, m |-> 1, d |-> c.d]
                ELSE [y |-> c.y, m |-> c.m + 1, d |-> c.d]

RECURSIVE MonthsFrom(_, _)
MonthsFrom(c, end) ==
    IF DateLeq(c, end) THEN <<c>> \o MonthsFrom(NextMonth(c), end) ELSE <<>>

\* the loop started at the start date itself, not at the first of its month
getMonthsBetweenDates_NoTruncation(start, end) == MonthsFrom(start, end)

getMonthsBetweenDates(start, end) ==
    MonthsFrom([y |-> start.y, m |-> start.m, d |-> 1], end)

MonthName == <<"January", "February", "March", "April", "May", "June", "July",
               "August", "September", "October", "November", "December">>

\* toLocaleString('en-US', {month:'long', year:'numeric'}).replace(' ', ' - ')
formatMonthYear(date) == MonthName[date.m] \o " - " \o ToString(date.y)

monthSheetNamesOf(start, end) ==
    LET ms == getMonthsBetweenDates(start, end)
    IN  [i \in 1..Len(ms) |-> formatMonthYear(ms[i])]

(***************************************************************************)
(* The mail source                                                         *)
(***************************************************************************)
\* Body rows of a request mail, by kind of mail.
FullRows(org, title, start, end) ==
    << <<"Name of Organization:", org>>, <<"Title of Activity:", title>>,
       <<"Start Date of Implementation:", start>>,
       <<"End Date of Implementation:", end>>,
       <<"Rationale/Brief Description:", "text">>,
       <<"Time of Implementation:", "9:00 AM">>,
       <<"Venue/Platform:", "Gym">>, <<"Requestor:", "someone">> >>

\* removes the row carrying a label (the mail template left it out)
Without(rows, label) ==
    LET keep == {i \in DOMAIN rows : rows[i][1] # label}
        RECURSIVE pick(_)
        pick(i) == IF i > Len(rows) THEN <<>>
                   ELSE IF i \in keep THEN <<rows[i]>> \o pick(i + 1) ELSE pick(i + 1)
    IN  pick(1)

BodyRows(kind) ==
    CASE kind = "july"     -> FullRows("Org A", "Fair", "2025-07-15", "2025-07-20")
      [] kind = "summer"   -> FullRows("Org B", "Camp", "2025-07-15", "2025-09-02")
      [] kind = "newyear"  -> FullRows("Org C", "Gala", "2025-12-10", "2026-01-05")
      [] kind = "noStart"  -> Without(FullRows("Org D", "Quiz", "", "2025-07-20"),
                                      "Start Date of Implementation:")
      [] kind = "badEnd"   -> FullRows("Org E", "Trip", "2025-07-15", "TBA")
      [] kind = "noDates"  -> Without(FullRows("Org F", "Talk", "", ""),
                                      "End Date of Implementation:")
      [] kind = "noOrg"    -> Without(FullRows("", "Expo", "2025-07-15", "2025-07-20"),
                                      "Name of Organization:")
      [] kind = "noTitleNoStart" -> FullRows("Org G", "", "soon", "2025-07-20")
      [] kind = "reversed" -> FullRows("Org H", "Jam", "2025-09-02", "2025-07-15")
      [] OTHER             -> FullRows("Org I", "Run", "2025-07-15", "2025-07-20")

\* A message of the mailbox.  sent is the instant of the Date header in
\* milliseconds (header dates have a resolution of one second), NoDate when
\* the header is missing; the mail source orders and filters by it.
\* html = FALSE: no text/html part.  poison = TRUE: the rich extractor
\* (parsePOAEmailHtmlToProps / buildPdfUrl) throws on this body.
NoDate == -1

Msg(kind, second) ==
    [kind |-> kind, at |-> second,
     date |-> IF kind = "noHeader" THEN NoDate ELSE second * 1000,
     html |-> kind # "noHtml", poison |-> kind = "poison",
     matches |-> kind # "other"]

\* The mailboxes the specifications start from; a message id is the position
\* of the message in its mailbox (oldest first).
SmallBoxes ==
    << << Msg("july", 10), Msg("noStart", 20), Msg("summer", 30) >>,
       << Msg("noOrg", 10), Msg("badEnd", 20), Msg("july", 30) >>,
       << Msg("noHeader", 10), Msg("noHtml", 20), Msg("noTitleNoStart", 30) >>,
       << Msg("other", 10), Msg("poison", 20), Msg("reversed", 30) >> >>

\* twelve candidates: two with invalid dates, one without organization
BigBox ==
    << Msg("july", 10), Msg("summer", 20), Msg("noStart", 30), Msg("july", 40),
       Msg("july", 50), Msg("noOrg", 60), Msg("summer", 70), Msg("july", 80),
       Msg("badEnd", 90), Msg("july", 100), Msg("newyear", 110), Msg("summer", 120) >>

\* number of messages of the mailbox that exceeds the cap of the pagination
HugeSize == 1100

\* a mailbox with more matching messages than MAX_MESSAGES, one per second
HugeBox == [i \in 1..HugeSize |-> Msg("july", i)]

Mailboxes == SmallBoxes \o << BigBox, HugeBox, SmallBoxes[1] >>

BigScenario == Len(SmallBoxes) + 1

HugeScenario == Len(SmallBoxes) + 2

\* the first small mailbox, for the behaviours in which the operator calls
\* reprocessHeldEmailWithDates once more than elsewhere
RepeatScenario == Len(SmallBoxes) + 3

(***************************************************************************)
(* fetchAndParseEmail: the synchronous part that runs once messages.get    *)
(* has resolved (lines 557-602) and the catch block (lines 603-607)        *)
(***************************************************************************)
\* buildPdfUrl(baseLink, parsePOAEmailHtmlToProps(htmlBody)): a black box
\* that is a function of the body
buildPdfUrl(msg) == "https://csao-poa.vercel.app/pdf?body=" \o msg.kind

\* a plain cell of rowData is written [text |-> s]
Plain(s) == [text |-> s]

rowDataOf(msg, parsedData) ==
    << Plain("UNSET"), Plain(parsedData.organization), Plain(parsedData.title),
       Plain(parsedData.description), Plain(parsedData.startDate),
       Plain(parsedData.endDate), Plain(parsedData.time), Plain(parsedData.venue),
       Plain(parsedData.type),
       [hyperlink |-> [url |-> buildPdfUrl(msg), text |-> "PDF LINK"]], Plain("") >>

ErrorOutcome(messageId, message) ==
    [result |-> [status |-> "error", messageId |-> messageId, error |-> message],
     task   |-> [status |-> "error", error |-> message]]

JoinMissing(noStart, noEnd) ==
    IF noStart /\ noEnd THEN "Start Date & End Date"
    ELSE IF noStart THEN "Start Date" ELSE "End Date"

\* result returned, and the last task patch reported, for a fetched message
fetchAndParseEmail(messageId, msg) ==
    IF ~msg.html THEN ErrorOutcome(messageId, "HTML body not found.")
    ELSE
    LET parsedData == parseEmailBody(BodyRows(msg.kind))
        startDate  == parseDateNoInference(parsedData.startDate)
        endDate    == parseDateNoInference(parsedData.endDate)
        missing    == JoinMissing(startDate = Null, endDate = Null)
    IN  IF parsedData.organization = "" \/ parsedData.title = ""
        THEN ErrorOutcome(messageId, "Missing organization or title in email body.")
        ELSE IF startDate = Null \/ endDate = Null
        THEN [result |-> [status |-> "held", messageId |-> messageId,
                          reason |-> missing \o " missing or invalid",
                          parsedData |-> parsedData, date |-> msg.date],
              task   |-> [status |-> "held", error |-> missing \o " need review"]]
        ELSE IF msg.poison
        THEN ErrorOutcome(messageId, "Unknown parsing error.")
        ELSE [result |-> [status |-> "success",
                          data |-> [messageId |-> messageId, parsedData |-> parsedData,
                                    monthSheetNames |-> monthSheetNamesOf(startDate, endDate),
                                    rowData |-> rowDataOf(msg, parsedData),
                                    date |-> msg.date]],
              task   |-> [status |-> "parsing", error |-> ""]]

\* catch block when messages.get itself rejects
fetchAndParseEmailRejected(messageId) ==
    ErrorOutcome(messageId, "mail source unavailable")

(***************************************************************************)
(* Row Encoder and request builders                                        *)
(***************************************************************************)
CategoryValues == <<"UNSET", "SPIN", "SCRO", "PROF">>

\* The texts of the model hold no double quote, so the quote doubling of the
\* encoder leaves them as they are.
EncodeCell(val) ==
    IF "hyperlink" \in DOMAIN val
    THEN [formulaValue |-> "=HYPERLINK(\"" \o val.hyperlink.url \o "\",\""
                             \o val.hyperlink.text \o "\")"]
    ELSE [stringValue |-> val.text]

generateRowRequests(sheetId, rowIndex, rowData, src) ==
    << [op |-> "updateCells", sheetId |-> sheetId, rowIndex |-> rowIndex,
        values |-> [i \in 1..Len(rowData) |-> EncodeCell(rowData[i])], src |-> src],
       [op |-> "setDataValidation", sheetId |-> sheetId, rowIndex |-> rowIndex] >>
    \o [i \in 1..Len(CategoryValues) |->
          [op |-> "addConditionalFormatRule", sheetId |-> sheetId,
           rowIndex |-> rowIndex, text |-> CategoryValues[i]]]

generateHeaderRequests(sheetId, isLog) ==
    << [op |-> "header", sheetId |-> sheetId,
        headers |-> IF isLog THEN "LOG_HEADERS" ELSE "MONTHLY_HEADERS"] >>

(***************************************************************************)
(* State                                                                   *)
(***************************************************************************)
VARIABLES
    \* the environment
    scenario,        \* index of the mailbox this behaviour works on
    sheets,          \* the spreadsheet: sheet title -> [sheetId, rows, rules]
    nextSheetId,     \* id the store gives to the next sheet it creates
    runs,            \* number of processEmails calls started so far
    getFaults,       \* messages.get calls rejected so far
    destFaults,      \* destination calls rejected so far
    \* processEmails
    pc,              \* the await the run is suspended at ("idle": no run)
    params,          \* [useDateFilter, manualStartDate] of the current run
    gmailQuery,      \* [from, phrases, after]; after = NoBound: no after: term
    processedIds,    \* dedup set read from the audit log
    allMessages,     \* candidate ids
    pageToken,       \* continuation token of messages.list (0: none)
    batchIndex,
    chunkStart,      \* i of the chunk loop
    inflight,        \* ids whose fetchAndParseEmail awaits messages.get
    settled,         \* id -> ParsedResult of the settled calls of the chunk
    parsedResults,
    existingSheets,  \* title -> sheetId, as read (and extended) by this batch
    sheetsToCreate,
    headerRequests,
    sheetState,      \* title -> [sheetId, lastRow]
    masterRequest,
    totalProcessed,
    outcome,         \* how the last run ended
    tasks,           \* the host's task list: id -> [status, error]
    \* history of the current run, kept for the properties
    fetched,         \* ids messages.get was called for
    logAtStart,      \* rows of the audit-log sheet when the run started
    writes,          \* row writes executed: [run, batch, title, rowIndex, src]
    appended,        \* audit-log rows appended, per run
    queueCalls,      \* arguments of the callbacks.queue calls of the run
    reported,        \* statuses reprocessHeldEmailWithDates passed to updateTask
    rp               \* the reprocessHeldEmailWithDates call: its await and locals

envVars   == <<scenario, sheets, nextSheetId, runs, getFaults, destFaults>>
queryVars == <<params, gmailQuery, processedIds, allMessages, pageToken>>
batchVars == <<batchIndex, chunkStart, inflight, settled, parsedResults>>
destVars  == <<existingSheets, sheetsToCreate, headerRequests, sheetState, masterRequest>>
histVars  == <<fetched, logAtStart, writes, appended, queueCalls, reported>>
vars == <<envVars, pc, queryVars, batchVars, destVars, totalProcessed, outcome,
          tasks, histVars, rp>>

NoBound == -1
SenderEmail == "forms@school.example"

Mailbox == Mailboxes[scenario]
MessageIds == DOMAIN Mailbox

\* values of the manualStartDate parameter: none, unparseable, a day
ManualDates == {"", "2025-13-40", "2025-08-01"}

\* new Date(manualStartDate + 'T00:00:00').getTime(); -1 stands for NaN
ManualTime(d) == IF d = "2025-08-01" THEN 25000 ELSE -1

\* Math.floor(ms / 1000)
UnixSeconds(ms) == ms \div 1000

\* sizes of the pages the mail source may answer with (at most maxResults)
PageSizes == {2, MAX_RESULTS}

(***************************************************************************)
(* The tabular store                                                       *)
(***************************************************************************)
LogHeaderRow == [header |-> "LOG_HEADERS"]
MonthHeaderRow == [header |-> "MONTHLY_HEADERS"]

IsHeaderRow(row) == "header" \in DOMAIN row

\* column A of a row is empty only for an audit-log row without timestamp
ColumnAEmpty(row) ==
    \/ "blank" \in DOMAIN row
    \/ "ts" \in DOMAIN row /\ row.ts = NoDate

\* values.batchGet of "<title>!A:A": rows up to the last non-empty cell of A
RECURSIVE ColumnALength(_)
ColumnALength(rows) ==
    IF rows = <<>> THEN 0
    ELSE IF ColumnAEmpty(rows[Len(rows)])
         THEN ColumnALength(SubSeq(rows, 1, Len(rows) - 1))
         ELSE Len(rows)

\* values.get of "POA Log!A2:..." : the rows below the first one
LogDataRows ==
    IF LOG_SHEET_NAME \in DOMAIN sheets /\ Len(sheets[LOG_SHEET_NAME].rows) > 1
    THEN Tail(sheets[LOG_SHEET_NAME].rows) ELSE <<>>

\* every row of the audit log that carries a message id
LogRowsAll ==
    IF LOG_SHEET_NAME \in DOMAIN sheets
    THEN LET rows == sheets[LOG_SHEET_NAME].rows
         IN  {rows[i] : i \in {j \in DOMAIN rows : ~IsHeaderRow(rows[j])}}
    ELSE {}

LoggedIds == {r.id : r \in LogRowsAll}

LogSheetRows == IF LOG_SHEET_NAME \in DOMAIN sheets THEN sheets[LOG_SHEET_NAME].rows ELSE <<>>

TitleOfId(sh, sheetId) == CHOOSE t \in DOMAIN sh : sh[t].sheetId = sheetId

\* a row that was never written, above a written one
Blank == [blank |-> TRUE]

\* spreadsheets.batchUpdate: the requests are applied in order, all or
\* nothing.  addSheet creates an empty sheet; header and updateCells put a
\* row at a row index (the last request on an index wins);
\* addConditionalFormatRule adds one rule to the sheet; appendDimension and
\* setDataValidation do not change what is read back.
ApplyAll(sh, reqs) ==
    LET adds     == {i \in DOMAIN reqs : reqs[i].op = "addSheet"}
        titles   == DOMAIN sh \cup {reqs[i].title : i \in adds}
        idOf(t)  == IF t \in DOMAIN sh THEN sh[t].sheetId
                    ELSE reqs[CHOOSE i \in adds : reqs[i].title = t].sheetId
        old(t)   == IF t \in DOMAIN sh THEN sh[t].rows ELSE <<>>
        puts(t)  == {i \in DOMAIN reqs : /\ reqs[i].op \in {"header", "updateCells"}
                                         /\ reqs[i].sheetId = idOf(t)}
        index(i) == IF reqs[i].op = "header" THEN 0 ELSE reqs[i].rowIndex
        row(i)   == IF reqs[i].op = "header"
                    THEN (IF reqs[i].headers = "LOG_HEADERS" THEN LogHeaderRow
                          ELSE MonthHeaderRow)
                    ELSE [src |-> reqs[i].src, values |-> reqs[i].values]
        length(t) == MaxOf({Len(old(t))} \cup {index(i) + 1 : i \in puts(t)})
        rowAt(t, k) == LET hits == {i \in puts(t) : index(i) = k - 1}
                       IN  IF hits # {} THEN row(MaxOf(hits))
                           ELSE IF k <= Len(old(t)) THEN old(t)[k] ELSE Blank
        rulesOf(t) == (IF t \in DOMAIN sh THEN sh[t].rules ELSE 0)
                      + Cardinality({i \in DOMAIN reqs :
                            /\ reqs[i].op = "addConditionalFormatRule"
                            /\ reqs[i].sheetId = idOf(t)})
    IN  [t \in titles |->
           [sheetId |-> idOf(t),
            rows    |-> [k \in 1..length(t) |-> rowAt(t, k)],
            rules   |-> rulesOf(t)]]

(***************************************************************************)
(* Helpers of processEmails                                                *)
(***************************************************************************)
EmptyMap == [t \in {} |-> 0]

\* messages.list: ids of the messages matching the query, newest first
\* (the bound of an after: term is inclusive)
Listing(q) ==
    LET hit == {id \in MessageIds :
                  /\ Mailbox[id].matches
                  /\ (q.after = NoBound \/ Mailbox[id].at >= q.after)}
    IN  Reverse(FilterSeq([i \in 1..Len(Mailbox) |-> i], hit))

\* callbacks.updateTask / updateTasksBulk with a patch {status}
PatchStatus(t, ids, status) ==
    [id \in DOMAIN t |-> IF id \in ids THEN [t[id] EXCEPT !.status = status] ELSE t[id]]

\* callbacks.updateTask with a patch {status, error}
PatchTask(t, id, patch) ==
    [i \in DOMAIN t |->
        IF i # id THEN t[i]
        ELSE IF patch.status = "parsing" THEN [t[i] EXCEPT !.status = "parsing"]
        ELSE patch]

SelectStatus(results, status) ==
    LET RECURSIVE sel(_)
        sel(i) == IF i > Len(results) THEN <<>>
                  ELSE IF results[i].status = status THEN <<results[i]>> \o sel(i + 1)
                  ELSE sel(i + 1)
    IN  sel(1)

SuccessIds(results) == {r.data.messageId : r \in Range(SelectStatus(results, "success"))}
HeldIds(results) == {r.messageId : r \in Range(SelectStatus(results, "held"))}

\* insertion order of the Map dataBySheet: titles in order of first use
RECURSIVE TitlesInOrder(_, _)
TitlesInOrder(names, seen) ==
    IF names = <<>> THEN <<>>
    ELSE IF Head(names) \in seen THEN TitlesInOrder(Tail(names), seen)
         ELSE <<Head(names)>> \o TitlesInOrder(Tail(names), seen \cup {Head(names)})

RECURSIVE Flatten(_)
Flatten(ss) == IF ss = <<>> THEN <<>> ELSE Head(ss) \o Flatten(Tail(ss))

dataBySheetKeys(successful) ==
    TitlesInOrder(Flatten([i \in 1..Len(successful) |-> successful[i].data.monthSheetNames]), {})

\* dataBySheet.get(title): the successful results routed to the title, in order
dataBySheetRows(successful, title) ==
    LET RECURSIVE sel(_)
        sel(i) == IF i > Len(successful) THEN <<>>
                  ELSE IF title \in Range(successful[i].data.monthSheetNames)
                       THEN <<successful[i].data>> \o sel(i + 1)
                       ELSE sel(i + 1)
    IN  sel(1)

neededSheetNames(successful) == <<LOG_SHEET_NAME>> \o dataBySheetKeys(successful)

\* the offsets shifted by one: state.lastRow + i with i counted from 1
SheetRequests_OffByOne(state, rows) ==
    << [op |-> "appendDimension", sheetId |-> state.sheetId, length |-> Len(rows)] >>
    \o Flatten([i \in 1..Len(rows) |->
          generateRowRequests(state.sheetId, state.lastRow + i,
                              rows[i].rowData, rows[i].messageId)])

\* requests of one title of dataBySheet (lines 830-837)
SheetRequests(state, rows) ==
    << [op |-> "appendDimension", sheetId |-> state.sheetId, length |-> Len(rows)] >>
    \o Flatten([i \in 1..Len(rows) |->
          generateRowRequests(state.sheetId, state.lastRow + (i - 1),
                              rows[i].rowData, rows[i].messageId)])

BuildMasterRequest(successful, state) ==
    LET keys == dataBySheetKeys(successful)
    IN  Flatten([k \in 1..Len(keys) |->
          IF keys[k] \in DOMAIN state
          THEN SheetRequests(state[keys[k]], dataBySheetRows(successful, keys[k]))
          ELSE <<>>])

\* rows appended to the audit log by one macro-batch (lines 845-848)
BuildLogRows(results) ==
    LET ok   == SelectStatus(results, "success")
        held == SelectStatus(results, "held")
    IN  [i \in 1..Len(ok) |->
            [ts |-> ok[i].data.date, id |-> ok[i].data.messageId, status |-> "Processed",
             org |-> ok[i].data.parsedData.organization,
             title |-> ok[i].data.parsedData.title]]
        \o
        [i \in 1..Len(held) |->
            [ts |-> held[i].date, id |-> held[i].messageId, status |-> "Held (dates needed)",
             org |-> held[i].parsedData.organization,
             title |-> held[i].parsedData.title]]

batchMessagesOf(all, bi) == Slice(all, bi * BATCH_SIZE, bi * BATCH_SIZE + BATCH_SIZE)

\* the number of macro-batches rounded down
totalBatchesOf_Floor(all) == Len(all) \div BATCH_SIZE

\* Math.ceil(allMessages.length / BATCH_SIZE)
totalBatchesOf(all) == (Len(all) + BATCH_SIZE - 1) \div BATCH_SIZE

(***************************************************************************)
(* processEmails                                                           *)
(***************************************************************************)
\* number of runs a behaviour may start
RunLimit == IF scenario = BigScenario THEN MaxBigRuns ELSE MaxRuns

NoOutcome == [kind |-> "none"]

\* no reprocessHeldEmailWithDates call was made yet
NoCall ==
    [pc |-> "idle", calls |-> 0, messageId |-> 0, manualStartDate |-> "",
     manualEndDate |-> "", parsed |-> <<>>, monthSheetNames |-> <<>>, rowData |-> <<>>,
     existingSheets |-> [t \in {} |-> 0], toCreate |-> <<>>, headerRequests |-> <<>>,
     sheetState |-> [t \in {} |-> 0], masterRequest |-> <<>>, result |-> NoOutcome]

ResetBatch ==
    /\ batchIndex' = 0 /\ chunkStart' = 0 /\ inflight' = {}
    /\ settled' = EmptyMap /\ parsedResults' = <<>>

ResetDest ==
    /\ existingSheets' = EmptyMap /\ sheetsToCreate' = <<>> /\ headerRequests' = <<>>
    /\ sheetState' = EmptyMap /\ masterRequest' = <<>>

\* lines 686-699: the query is set up and the first call is issued
StartRun(useDateFilter, manualStartDate) ==
    /\ pc = "idle"
    /\ runs < RunLimit
    /\ runs' = runs + 1
    /\ params' = [useDateFilter |-> useDateFilter, manualStartDate |-> manualStartDate]
    /\ gmailQuery' =
          [from |-> SenderEmail, phrases |-> <<"POA", "The request is now complete.">>,
           after |-> IF manualStartDate # "" /\ ManualTime(manualStartDate) # -1
                     THEN UnixSeconds(ManualTime(manualStartDate)) ELSE NoBound]
    /\ pc' = IF manualStartDate = "" /\ useDateFilter THEN "readlog" ELSE "list"
    /\ processedIds' = {} /\ allMessages' = <<>> /\ pageToken' = 0
    /\ ResetBatch /\ ResetDest
    /\ totalProcessed' = 0
    /\ outcome' = NoOutcome
    /\ fetched' = {}
    /\ logAtStart' = LogSheetRows
    /\ appended' = Append(appended, <<>>)
    /\ queueCalls' = <<>>
    /\ UNCHANGED <<reported, rp>>
    /\ UNCHANGED <<scenario, sheets, nextSheetId, getFaults, destFaults, tasks, writes>>

\* the reduce without its `current > latest` test: the last timestamp wins
latestTimestamp_LastWins(logRows) ==
    LET stamped == {j \in DOMAIN logRows : logRows[j].ts # NoDate}
    IN  IF stamped # {} THEN logRows[MaxOf(stamped)].ts ELSE NoDate

\* lines 704-710: the newest timestamp of the rows read from the log, in
\* milliseconds; NoDate when no row carries one
latestTimestamp(logRows) ==
    LET times == {logRows[i].ts : i \in {j \in DOMAIN logRows : logRows[j].ts # NoDate}}
    IN  IF times # {} THEN MaxOf(times) ELSE NoDate

\* line 720: the dedup set
processedIdsOf(logRows) == {logRows[i].id : i \in DOMAIN logRows}

\* lines 701-720: the audit log is read, watermark and dedup set derived
ReadLogOk ==
    /\ pc = "readlog"
    /\ LOG_SHEET_NAME \in DOMAIN sheets
    /\ gmailQuery' = [gmailQuery EXCEPT !.after =
                         IF latestTimestamp(LogDataRows) # NoDate
                         THEN UnixSeconds(latestTimestamp(LogDataRows)) ELSE NoBound]
    /\ processedIds' = processedIdsOf(LogDataRows)
    /\ pc' = "list"
    /\ UNCHANGED <<envVars, params, allMessages, pageToken, batchVars, destVars,
                   totalProcessed, outcome, tasks, histVars, rp>>

\* the catch without its test of the error code: 'sheet absent' is rethrown
ReadLogMissing_Rethrown ==
    /\ pc = "readlog"
    /\ LOG_SHEET_NAME \notin DOMAIN sheets
    /\ pc' = "idle"
    /\ outcome' = [kind |-> "rejected", at |-> "readlog", batch |-> 0]
    /\ UNCHANGED <<envVars, queryVars, batchVars, destVars, totalProcessed, tasks,
                   histVars, rp>>

\* lines 721-724: the audit-log sheet does not exist (error code 400)
ReadLogMissing ==
    /\ pc = "readlog"
    /\ LOG_SHEET_NAME \notin DOMAIN sheets
    /\ pc' = "list"
    /\ UNCHANGED <<envVars, queryVars, batchVars, destVars, totalProcessed, outcome,
                   tasks, histVars, rp>>

\* lines 724-726: any other failure of the log read is rethrown
ReadLogFail ==
    /\ pc = "readlog"
    /\ destFaults < MaxDestFaults
    /\ destFaults' = destFaults + 1
    /\ pc' = "idle"
    /\ outcome' = [kind |-> "rejected", at |-> "readlog", batch |-> 0]
    /\ UNCHANGED <<scenario, sheets, nextSheetId, runs, getFaults, queryVars, batchVars,
                   destVars, totalProcessed, tasks, histVars, rp>>

\* every call of the macro-batch from i on is launched at once
LaunchChunk_WholeBatch(all, bi, i, t) ==
    LET chunk == Slice(batchMessagesOf(all, bi), i, Len(batchMessagesOf(all, bi)))
    IN  /\ batchIndex' = bi
        /\ chunkStart' = i
        /\ inflight' = Range(chunk)
        /\ settled' = EmptyMap
        /\ tasks' = PatchStatus(t, Range(chunk), "fetching")
        /\ fetched' = fetched \cup Range(chunk)
        /\ pc' = "fetching"

\* lines 761-770: a macro-batch starts, its first chunk is launched; every
\* call of the chunk reports 'fetching' and issues messages.get
LaunchChunk(all, bi, i, t) ==
    LET chunk == Slice(batchMessagesOf(all, bi), i, i + CHUNK_SIZE)
    IN  /\ batchIndex' = bi
        /\ chunkStart' = i
        /\ inflight' = Range(chunk)
        /\ settled' = EmptyMap
        /\ tasks' = PatchStatus(t, Range(chunk), "fetching")
        /\ fetched' = fetched \cup Range(chunk)
        /\ pc' = "fetching"

\* the page filter without the dedup set
pageMessagesOf_NoDedup(page, processed) == page

\* line 736: the ids of a page that are not in the dedup set
pageMessagesOf(page, processed) == FilterSeq(page, MessageIds \ processed)

\* the candidates queued in listing order, newest first
queuedTasksOf_Unreversed(all) ==
    [i \in 1..Len(all) |->
        [id |-> all[Len(all) + 1 - i], subject |-> "In queue...", status |-> "queued"]]

\* line 755: allMessages.map(msg => ({id, subject: 'In queue...', status: 'queued'}))
queuedTasksOf(all) ==
    [i \in 1..Len(all) |-> [id |-> all[i], subject |-> "In queue...", status |-> "queued"]]

\* the queue callback of the host, setTasks(newTasks): the task list is replaced
setTasks(newTasks) ==
    [id \in {newTasks[i].id : i \in DOMAIN newTasks} |->
        [status |-> "queued", error |-> ""]]

\* lines 734-755: one page of messages.list; after the last page the
\* candidates are reversed and queued and the first macro-batch starts
ListPage(size) ==
    /\ pc = "list"
    /\ LET matching == Listing(gmailQuery)
           page     == Slice(matching, pageToken, pageToken + Min(size, MAX_RESULTS))
           next     == IF pageToken + Len(page) < Len(matching)
                       THEN pageToken + Len(page) ELSE 0
           all      == allMessages \o pageMessagesOf(page, processedIds)
       IN  IF next # 0 /\ Len(all) < MAX_MESSAGES
           THEN /\ allMessages' = all
                /\ pageToken' = next
                /\ UNCHANGED <<pc, batchVars, outcome, tasks, fetched, queueCalls>>
           ELSE IF Len(all) = 0
           THEN /\ allMessages' = all
                /\ pageToken' = next
                /\ pc' = "idle"
                /\ outcome' = [kind |-> "returned", processed |-> 0,
                               finalRead |-> "skipped", heldNotice |-> <<>>]
                /\ UNCHANGED <<batchVars, tasks, fetched, queueCalls>>
           ELSE /\ allMessages' = Reverse(all)
                /\ pageToken' = next
                /\ parsedResults' = <<>>
                /\ queueCalls' = Append(queueCalls, queuedTasksOf(Reverse(all)))
                /\ LaunchChunk(Reverse(all), 0, 0, setTasks(queuedTasksOf(Reverse(all))))
                /\ UNCHANGED outcome
    /\ UNCHANGED <<envVars, params, gmailQuery, processedIds, destVars, totalProcessed,
                   logAtStart, writes, appended, reported, rp>>

\* lines 557-602: messages.get of one call resolved; the call classifies
GetResolve(id) ==
    /\ pc = "fetching"
    /\ id \in inflight
    /\ LET out == fetchAndParseEmail(id, Mailbox[id])
       IN  /\ settled' = [i \in DOMAIN settled \cup {id} |->
                            IF i = id THEN out.result ELSE settled[i]]
           /\ tasks' = PatchTask(PatchStatus(tasks, {id}, "parsing"), id, out.task)
    /\ inflight' = inflight \ {id}
    /\ UNCHANGED <<envVars, pc, queryVars, batchIndex, chunkStart, parsedResults,
                   destVars, totalProcessed, outcome, histVars, rp>>

\* the mail source may fail for one message of the mailbox: the newest of a
\* small mailbox, the second of the large one
MayReject(id) == id = IF scenario = BigScenario THEN 2 ELSE 3

\* messages.get of one call rejected and nothing catches it: the run rejects
GetReject_Uncaught(id) ==
    /\ pc = "fetching"
    /\ id \in inflight
    /\ MayReject(id)
    /\ getFaults < MaxGetFaults
    /\ getFaults' = getFaults + 1
    /\ pc' = "idle"
    /\ outcome' = [kind |-> "rejected", at |-> "get", batch |-> batchIndex]
    /\ UNCHANGED <<scenario, sheets, nextSheetId, runs, destFaults, queryVars,
                   batchVars, destVars, totalProcessed, tasks, histVars, rp>>

\* lines 603-607: messages.get of one call rejected; caught inside the call
GetReject(id) ==
    /\ pc = "fetching"
    /\ id \in inflight
    /\ MayReject(id)
    /\ getFaults < MaxGetFaults
    /\ getFaults' = getFaults + 1
    /\ LET out == fetchAndParseEmailRejected(id)
       IN  /\ settled' = [i \in DOMAIN settled \cup {id} |->
                            IF i = id THEN out.result ELSE settled[i]]
           /\ tasks' = PatchTask(tasks, id, out.task)
    /\ inflight' = inflight \ {id}
    /\ UNCHANGED <<scenario, sheets, nextSheetId, runs, destFaults, pc, queryVars,
                   batchIndex, chunkStart, parsedResults, destVars, totalProcessed,
                   outcome, histVars, rp>>

\* lines 768-793: Promise.all of the chunk resolved; either the next chunk
\* is launched or the macro-batch is classified and spreadsheets.get issued
ChunkDone ==
    /\ pc = "fetching"
    /\ inflight = {}
    /\ LET batchMessages == batchMessagesOf(allMessages, batchIndex)
           chunk   == Slice(batchMessages, chunkStart, chunkStart + CHUNK_SIZE)
           results == parsedResults \o [i \in 1..Len(chunk) |-> settled[chunk[i]]]
       IN  /\ parsedResults' = results
           /\ IF chunkStart + CHUNK_SIZE < Len(batchMessages)
              THEN LaunchChunk(allMessages, batchIndex, chunkStart + CHUNK_SIZE, tasks)
              ELSE /\ tasks' = PatchStatus(
                                  PatchStatus(tasks, SuccessIds(results), "building_request"),
                                  HeldIds(results), "held")
                   /\ pc' = "structure"
                   /\ UNCHANGED <<batchIndex, chunkStart, inflight, settled, fetched>>
    /\ UNCHANGED <<envVars, queryVars, destVars, totalProcessed, outcome,
                   logAtStart, writes, appended, queueCalls, reported, rp>>

\* every task of the macro-batch is reported done, whatever its result
FinishBatch_AllDone ==
    LET successful == SelectStatus(parsedResults, "success")
        doneTasks  == PatchStatus(tasks, Range(batchMessagesOf(allMessages, batchIndex)), "done")
    IN  /\ totalProcessed' = totalProcessed + Len(successful)
        /\ IF batchIndex + 1 < totalBatchesOf(allMessages)
           THEN /\ parsedResults' = <<>>
                /\ LaunchChunk(allMessages, batchIndex + 1, 0, doneTasks)
           ELSE /\ tasks' = doneTasks
                /\ pc' = "summary"
                /\ UNCHANGED <<batchVars, fetched>>

\* lines 852-858: the macro-batch ends; the next one starts or the final
\* read of the audit log is issued
FinishBatch ==
    LET successful == SelectStatus(parsedResults, "success")
        doneTasks  == PatchStatus(tasks, SuccessIds(parsedResults), "done")
    IN  /\ totalProcessed' = totalProcessed + Len(successful)
        /\ IF batchIndex + 1 < totalBatchesOf(allMessages)
           THEN /\ parsedResults' = <<>>
                /\ LaunchChunk(allMessages, batchIndex + 1, 0, doneTasks)
           ELSE /\ tasks' = doneTasks
                /\ pc' = "summary"
                /\ UNCHANGED <<batchVars, fetched>>

\* every needed sheet is requested, whether the structure has it or not
GetStructureOk_CreateAll ==
    /\ pc = "structure"
    /\ LET needed == neededSheetNames(SelectStatus(parsedResults, "success"))
       IN  /\ existingSheets' = [t \in DOMAIN sheets |-> sheets[t].sheetId]
           /\ sheetsToCreate' = needed
           /\ pc' = "create"
    /\ UNCHANGED <<envVars, queryVars, batchVars, headerRequests, sheetState,
                   masterRequest, totalProcessed, outcome, tasks, histVars, rp>>

\* lines 793-797: the structure of the spreadsheet was read
GetStructureOk ==
    /\ pc = "structure"
    /\ LET needed == neededSheetNames(SelectStatus(parsedResults, "success"))
           create == FilterSeq(needed, Range(needed) \ DOMAIN sheets)
       IN  /\ existingSheets' = [t \in DOMAIN sheets |-> sheets[t].sheetId]
           /\ sheetsToCreate' = create
           /\ pc' = IF create # <<>> THEN "create" ELSE "rowcount"
    /\ UNCHANGED <<envVars, queryVars, batchVars, headerRequests, sheetState,
                   masterRequest, totalProcessed, outcome, tasks, histVars, rp>>

\* lines 799-812: the missing sheets were created; their header requests are
\* built from the replies and issued
CreateOk ==
    /\ pc = "create"
    /\ Range(sheetsToCreate) \cap DOMAIN sheets = {}
    /\ LET replies == [i \in 1..Len(sheetsToCreate) |->
                         [op |-> "addSheet", title |-> sheetsToCreate[i],
                          sheetId |-> nextSheetId + (i - 1)]]
       IN  /\ sheets' = ApplyAll(sheets, replies)
           /\ nextSheetId' = nextSheetId + Len(replies)
           /\ existingSheets' =
                 [t \in DOMAIN existingSheets \cup Range(sheetsToCreate) |->
                    IF t \in Range(sheetsToCreate)
                    THEN (CHOOSE r \in Range(replies) : r.title = t).sheetId
                    ELSE existingSheets[t]]
           /\ headerRequests' = Flatten([i \in 1..Len(replies) |->
                 generateHeaderRequests(replies[i].sheetId,
                                        replies[i].title = LOG_SHEET_NAME)])
    /\ pc' = "headers"
    /\ UNCHANGED <<scenario, runs, getFaults, destFaults, queryVars, batchVars,
                   sheetsToCreate, sheetState, masterRequest, totalProcessed, outcome,
                   tasks, histVars, rp>>

\* line 812: headers and styles were applied to the new sheets
HeadersOk ==
    /\ pc = "headers"
    /\ sheets' = ApplyAll(sheets, headerRequests)
    /\ pc' = "rowcount"
    /\ UNCHANGED <<scenario, nextSheetId, runs, getFaults, destFaults, queryVars,
                   batchVars, destVars, totalProcessed, outcome, tasks, histVars, rp>>

\* the row count kept from the previous macro-batch instead of a fresh read
lastRowOf_Cached(title) ==
    IF title \in DOMAIN sheetState THEN sheetState[title].lastRow
    ELSE ColumnALength(sheets[title].rows)

\* lines 819-822: the row count of a sheet as values.batchGet reports it
lastRowOf(title) == ColumnALength(sheets[title].rows)

\* lines 816-842 (and 845-852 when there is nothing to write): the row
\* counts were read; offsets are allocated and the mutation is issued
RowCountOk ==
    /\ pc = "rowcount"
    /\ LET successful == SelectStatus(parsedResults, "success")
           needed == neededSheetNames(successful)
           state  == [t \in Range(needed) \cap DOMAIN existingSheets \cap DOMAIN sheets |->
                        [sheetId |-> existingSheets[t],
                         lastRow |-> lastRowOf(t)]]
           req    == BuildMasterRequest(successful, state)
       IN  /\ sheetState' = state
           /\ masterRequest' = req
           /\ IF req # <<>>
              THEN /\ tasks' = PatchStatus(tasks, SuccessIds(parsedResults), "writing")
                   /\ pc' = "write"
                   /\ UNCHANGED <<batchVars, totalProcessed, fetched>>
              ELSE IF BuildLogRows(parsedResults) # <<>>
              THEN /\ pc' = "append"
                   /\ UNCHANGED <<batchVars, totalProcessed, tasks, fetched>>
              ELSE FinishBatch
    /\ UNCHANGED <<envVars, queryVars, existingSheets, sheetsToCreate, headerRequests,
                   outcome, logAtStart, writes, appended, queueCalls, reported, rp>>

\* the row writes of a request, as history records
WritesOf(reqs, sh, run, batch) ==
    {[run |-> run, batch |-> batch,
      title |-> TitleOfId(sh, reqs[i].sheetId),
      rowIndex |-> reqs[i].rowIndex, src |-> reqs[i].src,
      rowsBefore |-> Len(sh[TitleOfId(sh, reqs[i].sheetId)].rows)] :
        i \in {j \in DOMAIN reqs : reqs[j].op = "updateCells"}}

\* line 842: the mutation of the macro-batch was executed
WriteOk ==
    /\ pc = "write"
    /\ sheets' = ApplyAll(sheets, masterRequest)
    /\ writes' = writes \cup WritesOf(masterRequest, sheets, runs, batchIndex)
    /\ IF BuildLogRows(parsedResults) # <<>>
       THEN /\ pc' = "append"
            /\ UNCHANGED <<batchVars, totalProcessed, tasks, fetched>>
       ELSE FinishBatch
    /\ UNCHANGED <<scenario, nextSheetId, runs, getFaults, destFaults, queryVars,
                   destVars, outcome, logAtStart, appended, queueCalls, reported, rp>>

\* the log append issued without waiting for it: the macro-batch ends while
\* the rows are not in the log
AppendOk_NotAwaited ==
    /\ pc = "append"
    /\ FinishBatch
    /\ UNCHANGED <<scenario, sheets, nextSheetId, runs, getFaults, destFaults, queryVars,
                   destVars, outcome, logAtStart, writes, appended, queueCalls, reported, rp>>

\* lines 850-852: the outcomes of the macro-batch were appended to the log
AppendOk ==
    /\ pc = "append"
    /\ LOG_SHEET_NAME \in DOMAIN sheets
    /\ sheets' = [sheets EXCEPT ![LOG_SHEET_NAME].rows = @ \o BuildLogRows(parsedResults)]
    /\ appended' = [appended EXCEPT ![runs] = @ \o BuildLogRows(parsedResults)]
    /\ FinishBatch
    /\ UNCHANGED <<scenario, nextSheetId, runs, getFaults, destFaults, queryVars,
                   destVars, outcome, logAtStart, writes, queueCalls, reported, rp>>

\* a destination failure caught per macro-batch and reported on its tasks
DestFail_PerTask ==
    /\ pc \in {"structure", "create", "headers", "rowcount", "write", "append"}
    /\ destFaults < MaxDestFaults
    /\ destFaults' = destFaults + 1
    /\ outcome' = [kind |-> "rejected", at |-> pc, batch |-> batchIndex]
    /\ tasks' = PatchStatus(tasks, Range(batchMessagesOf(allMessages, batchIndex)), "error")
    /\ pc' = "idle"
    /\ UNCHANGED <<scenario, sheets, nextSheetId, runs, getFaults, queryVars, batchVars,
                   destVars, totalProcessed, histVars, rp>>

\* a destination call of a macro-batch rejects: nothing catches it
DestCalls == {"structure", "create", "headers", "rowcount", "write", "append"}

DestFail ==
    /\ pc \in DestCalls
    /\ destFaults < MaxDestFaults
    /\ destFaults' = destFaults + 1
    /\ outcome' = [kind |-> "rejected", at |-> pc, batch |-> batchIndex]
    /\ pc' = "idle"
    /\ UNCHANGED <<scenario, sheets, nextSheetId, runs, getFaults, queryVars, batchVars,
                   destVars, totalProcessed, tasks, histVars, rp>>

\* String(r[2]).toLowerCase().startsWith('held'), over the texts the third
\* column of the audit log can hold
HeldTexts == {"Held (dates needed)"}

\* the filter that keeps the rows of the other kind
heldNow_Processed(rows) ==
    LET IsHeld(r) == "status" \in DOMAIN r /\ r.status \notin HeldTexts
    IN  SelectSeq(rows, IsHeld)

\* line 863: the rows of the log that are on hold
heldNow(rows) ==
    LET IsHeld(r) == "status" \in DOMAIN r /\ r.status \in HeldTexts
    IN  SelectSeq(rows, IsHeld)

\* lines 865-874: the lines of the status message, one per held row (the
\* message is emitted only when there is one at least)
heldNoticeOf(rows) ==
    [i \in 1..Len(heldNow(rows)) |->
        [org |-> heldNow(rows)[i].org, title |-> heldNow(rows)[i].title,
         id |-> heldNow(rows)[i].id]]

\* lines 860-877: the final read of the audit log (POA Log!A2:E) resolved
SummaryOk ==
    /\ pc = "summary"
    /\ pc' = "idle"
    /\ outcome' = [kind |-> "returned", processed |-> totalProcessed,
                   finalRead |-> "ok", heldNotice |-> heldNoticeOf(LogDataRows)]
    /\ UNCHANGED <<envVars, queryVars, batchVars, destVars, totalProcessed, tasks,
                   histVars, rp>>

\* line 876: the final read rejected; the failure is swallowed
SummaryFail ==
    /\ pc = "summary"
    /\ destFaults < MaxDestFaults
    /\ destFaults' = destFaults + 1
    /\ pc' = "idle"
    /\ outcome' = [kind |-> "returned", processed |-> totalProcessed,
                   finalRead |-> "failed", heldNotice |-> <<>>]
    /\ UNCHANGED <<scenario, sheets, nextSheetId, runs, getFaults, queryVars, batchVars,
                   destVars, totalProcessed, tasks, histVars, rp>>

(***************************************************************************)
(* reprocessHeldEmailWithDates                                              *)
(***************************************************************************)
\* number of reprocessHeldEmailWithDates calls in one behaviour
MaxReprocess == 1

ReprocessLimit == IF scenario = RepeatScenario THEN MaxReprocess + 1 ELSE MaxReprocess

\* values of the manualStartDate and manualEndDate parameters
ManualStarts == {"2025-07-15", "2025-09-02", "TBA"}
ManualEnds == {"2025-07-20", "2025-09-02", "TBA"}

\* new Date() when the log row is built: later than every message, in
\* milliseconds
Now == 2000000

\* the destination calls of reprocessHeldEmailWithDates
ReprocessDestCalls == {"structure", "create", "headers", "rowcount", "write", "append"}

\* lines 1003-1007: the catch block; the task is set to error and
\* {status: 'error', message} is returned
ReprocessCaught(msg) ==
    /\ rp' = [rp EXCEPT !.pc = "idle", !.result = [status |-> "error", message |-> msg]]
    /\ tasks' = PatchTask(tasks, rp'.messageId, [status |-> "error", error |-> msg])
    /\ reported' = Append(IF rp.pc = "idle" THEN <<>> ELSE reported, "error")

\* the validation without the comparison of the two dates
ManualDatesError_NoOrderCheck(sd, ed) ==
    IF NewDate(sd) = NaN \/ NewDate(ed) = NaN
    THEN "Please provide valid Start and End dates."
    ELSE ""

\* lines 898-905: the message of the validation error, "" when the dates pass
ManualDatesError(sd, ed) ==
    IF NewDate(sd) = NaN \/ NewDate(ed) = NaN
    THEN "Please provide valid Start and End dates."
    ELSE IF ~DateLeq(NewDate(sd), NewDate(ed))
    THEN "Start Date must be on or before End Date."
    ELSE ""

\* lines 896-908: the call; the dates are validated and messages.get is issued
StartReprocess(messageId, sd, ed) ==
    /\ rp.pc = "idle"
    /\ rp.calls < ReprocessLimit
    /\ IF ManualDatesError(sd, ed) # ""
       THEN /\ rp' = [NoCall EXCEPT !.calls = rp.calls + 1, !.messageId = messageId,
                                    !.manualStartDate = sd, !.manualEndDate = ed,
                                    !.result = [status |-> "error",
                                                message |-> ManualDatesError(sd, ed)]]
            /\ tasks' = PatchTask(tasks, messageId,
                                  [status |-> "error", error |-> ManualDatesError(sd, ed)])
            /\ reported' = <<"error">>
       ELSE /\ rp' = [NoCall EXCEPT !.pc = "get", !.calls = rp.calls + 1,
                                    !.messageId = messageId,
                                    !.manualStartDate = sd, !.manualEndDate = ed]
            /\ tasks' = PatchTask(tasks, messageId, [status |-> "fetching", error |-> ""])
            /\ reported' = <<"fetching">>
    /\ UNCHANGED <<envVars, pc, queryVars, batchVars, destVars, totalProcessed, outcome,
                   fetched, logAtStart, writes, appended, queueCalls>>

\* lines 918-945: the row of the message with the manual dates
manualRowDataOf(msg, parsed, sd, ed) ==
    << Plain("UNSET"), Plain(parsed.organization), Plain(parsed.title),
       Plain(parsed.description), Plain(sd), Plain(ed), Plain(parsed.time),
       Plain(parsed.venue), Plain(parsed.type),
       [hyperlink |-> [url |-> buildPdfUrl(msg), text |-> "PDF LINK"]], Plain("") >>

\* lines 909-950: messages.get resolved; the body is parsed, the row is
\* built with the manual dates and spreadsheets.get is issued
ReprocessGetOk ==
    /\ rp.pc = "get"
    /\ LET msg    == Mailbox[rp.messageId]
           parsed == parseEmailBody(IF msg.html THEN BodyRows(msg.kind) ELSE <<>>)
       IN  IF msg.poison
           THEN /\ rp' = [rp EXCEPT !.pc = "idle",
                             !.result = [status |-> "error",
                                         message |-> "Unknown parsing error."]]
                /\ tasks' = PatchTask(tasks, rp.messageId,
                                [status |-> "error", error |-> "Unknown parsing error."])
                /\ reported' = reported \o <<"parsing", "error">>
           ELSE /\ rp' = [rp EXCEPT
                            !.pc = "structure", !.parsed = parsed,
                            !.monthSheetNames =
                               monthSheetNamesOf(NewDate(rp.manualStartDate),
                                                 NewDate(rp.manualEndDate)),
                            !.rowData = manualRowDataOf(msg, parsed, rp.manualStartDate,
                                                        rp.manualEndDate)]
                /\ tasks' = PatchStatus(tasks, {rp.messageId}, "building_request")
                /\ reported' = reported \o <<"parsing", "building_request">>
    /\ UNCHANGED <<envVars, pc, queryVars, batchVars, destVars, totalProcessed, outcome,
                   fetched, logAtStart, writes, appended, queueCalls>>

\* line 908: messages.get rejected
ReprocessGetFail ==
    /\ rp.pc = "get"
    /\ getFaults < MaxGetFaults
    /\ getFaults' = getFaults + 1
    /\ ReprocessCaught("mail source unavailable")
    /\ UNCHANGED <<scenario, sheets, nextSheetId, runs, destFaults, pc, queryVars,
                   batchVars, destVars, totalProcessed, outcome,
                   fetched, logAtStart, writes, appended, queueCalls>>

\* lines 952-956: the structure was read; the missing sheets are requested
ReprocessStructureOk ==
    /\ rp.pc = "structure"
    /\ LET needed   == TitlesInOrder(<<LOG_SHEET_NAME>> \o rp.monthSheetNames, {})
           toCreate == FilterSeq(needed, Range(needed) \ DOMAIN sheets)
       IN  rp' = [rp EXCEPT
                    !.existingSheets = [t \in DOMAIN sheets |-> sheets[t].sheetId],
                    !.toCreate = toCreate,
                    !.pc = IF toCreate # <<>> THEN "create" ELSE "rowcount"]
    /\ UNCHANGED <<envVars, pc, queryVars, batchVars, destVars, totalProcessed, outcome,
                   tasks, histVars>>

\* lines 957-965: the sheets were created; their headers are requested
ReprocessCreateOk ==
    /\ rp.pc = "create"
    /\ Range(rp.toCreate) \cap DOMAIN sheets = {}
    /\ LET replies == [i \in 1..Len(rp.toCreate) |->
                         [op |-> "addSheet", title |-> rp.toCreate[i],
                          sheetId |-> nextSheetId + (i - 1)]]
       IN  /\ sheets' = ApplyAll(sheets, replies)
           /\ nextSheetId' = nextSheetId + Len(replies)
           /\ rp' = [rp EXCEPT
                       !.pc = "headers",
                       !.existingSheets =
                          [t \in DOMAIN rp.existingSheets \cup Range(rp.toCreate) |->
                             IF t \in Range(rp.toCreate)
                             THEN (CHOOSE r \in Range(replies) : r.title = t).sheetId
                             ELSE rp.existingSheets[t]],
                       !.headerRequests = Flatten([i \in 1..Len(replies) |->
                          generateHeaderRequests(replies[i].sheetId,
                                                 replies[i].title = LOG_SHEET_NAME)])]
    /\ UNCHANGED <<scenario, runs, getFaults, destFaults, pc, queryVars, batchVars,
                   destVars, totalProcessed, outcome, tasks, histVars>>

\* lines 966-968: the headers were applied
ReprocessHeadersOk ==
    /\ rp.pc = "headers"
    /\ sheets' = ApplyAll(sheets, rp.headerRequests)
    /\ rp' = [rp EXCEPT !.pc = "rowcount"]
    /\ UNCHANGED <<scenario, nextSheetId, runs, getFaults, destFaults, pc, queryVars,
                   batchVars, destVars, totalProcessed, outcome, tasks, histVars>>

\* the row count that was read is dropped: every row goes to offset 0
manualMasterRequest_RowZero(names, state, existing, rowData, messageId) ==
    Flatten([k \in 1..Len(names) |->
       << [op |-> "appendDimension", sheetId |-> existing[names[k]], length |-> 1] >>
       \o generateRowRequests(existing[names[k]], 0, rowData, messageId)])

\* lines 983-988: appendDimension and the row requests of every month sheet
manualMasterRequest(names, state, existing, rowData, messageId) ==
    Flatten([k \in 1..Len(names) |->
       LET st == IF names[k] \in DOMAIN state THEN state[names[k]]
                 ELSE [sheetId |-> existing[names[k]], lastRow |-> 0]
       IN  << [op |-> "appendDimension", sheetId |-> st.sheetId, length |-> 1] >>
           \o generateRowRequests(st.sheetId, st.lastRow, rowData, messageId)])

\* lines 971-993: the row counts of the month sheets were read; the
\* mutation is built and issued
ReprocessRowCountOk ==
    /\ rp.pc = "rowcount"
    /\ \A t \in Range(rp.monthSheetNames) : t \in DOMAIN rp.existingSheets => t \in DOMAIN sheets
    /\ LET state == [t \in Range(rp.monthSheetNames) \cap DOMAIN rp.existingSheets |->
                       [sheetId |-> rp.existingSheets[t], lastRow |-> lastRowOf(t)]]
       IN  rp' = [rp EXCEPT
                    !.sheetState = state,
                    !.masterRequest =
                       manualMasterRequest(rp.monthSheetNames, state, rp.existingSheets,
                                           rp.rowData, rp.messageId),
                    !.pc = IF rp.monthSheetNames # <<>> THEN "write" ELSE "append"]
    /\ tasks' = PatchStatus(tasks, {rp.messageId}, "writing")
    /\ reported' = Append(reported, "writing")
    /\ UNCHANGED <<envVars, pc, queryVars, batchVars, destVars, totalProcessed, outcome,
                   fetched, logAtStart, writes, appended, queueCalls>>

\* line 992: the mutation was executed; the log append is issued
ReprocessWriteOk ==
    /\ rp.pc = "write"
    /\ sheets' = ApplyAll(sheets, rp.masterRequest)
    /\ writes' = writes \cup WritesOf(rp.masterRequest, sheets, 0, rp.calls)
    /\ rp' = [rp EXCEPT !.pc = "append"]
    /\ UNCHANGED <<scenario, nextSheetId, runs, getFaults, destFaults, pc, queryVars,
                   batchVars, destVars, totalProcessed, outcome, tasks,
                   fetched, logAtStart, appended, queueCalls, reported>>

\* the row appended to the audit log (line 1000)
manualLogRow ==
    [ts |-> Now, id |-> rp.messageId, status |-> "Processed (manual dates)",
     org |-> rp.parsed.organization, title |-> rp.parsed.title]

\* the call returns done without the row of the audit log
ReprocessAppendOk_NoLogRow ==
    /\ rp.pc = "append"
    /\ LOG_SHEET_NAME \in DOMAIN sheets
    /\ rp' = [rp EXCEPT !.pc = "idle", !.result = [status |-> "done"]]
    /\ tasks' = PatchTask(tasks, rp.messageId, [status |-> "done", error |-> ""])
    /\ reported' = Append(reported, "done")
    /\ UNCHANGED <<envVars, pc, queryVars, batchVars, destVars, totalProcessed, outcome,
                   fetched, logAtStart, writes, appended, queueCalls>>

\* lines 995-1002: the row was appended to the audit log; done is reported
ReprocessAppendOk ==
    /\ rp.pc = "append"
    /\ LOG_SHEET_NAME \in DOMAIN sheets
    /\ sheets' = [sheets EXCEPT ![LOG_SHEET_NAME].rows = Append(@, manualLogRow)]
    /\ rp' = [rp EXCEPT !.pc = "idle", !.result = [status |-> "done"]]
    /\ tasks' = PatchTask(tasks, rp.messageId, [status |-> "done", error |-> ""])
    /\ reported' = Append(reported, "done")
    /\ UNCHANGED <<scenario, nextSheetId, runs, getFaults, destFaults, pc, queryVars,
                   batchVars, destVars, totalProcessed, outcome,
                   fetched, logAtStart, writes, appended, queueCalls>>

\* a destination call of reprocessHeldEmailWithDates rejected
ReprocessDestFail ==
    /\ rp.pc \in ReprocessDestCalls
    /\ destFaults < MaxDestFaults
    /\ destFaults' = destFaults + 1
    /\ ReprocessCaught("destination unavailable")
    /\ UNCHANGED <<scenario, sheets, nextSheetId, runs, getFaults, pc, queryVars,
                   batchVars, destVars, totalProcessed, outcome,
                   fetched, logAtStart, writes, appended, queueCalls>>

(***************************************************************************)
(* Specifications                                                          *)
(***************************************************************************)
InitRun ==
    /\ sheets = EmptyMap
    /\ nextSheetId = 1
    /\ runs = 0 /\ getFaults = 0 /\ destFaults = 0
    /\ pc = "idle"
    /\ params = [useDateFilter |-> TRUE, manualStartDate |-> ""]
    /\ gmailQuery = [from |-> SenderEmail,
                     phrases |-> <<"POA", "The request is now complete.">>,
                     after |-> NoBound]
    /\ processedIds = {} /\ allMessages = <<>> /\ pageToken = 0
    /\ batchIndex = 0 /\ chunkStart = 0 /\ inflight = {}
    /\ settled = EmptyMap /\ parsedResults = <<>>
    /\ existingSheets = EmptyMap /\ sheetsToCreate = <<>> /\ headerRequests = <<>>
    /\ sheetState = EmptyMap /\ masterRequest = <<>>
    /\ totalProcessed = 0
    /\ outcome = NoOutcome
    /\ tasks = EmptyMap
    /\ fetched = {} /\ logAtStart = <<>> /\ writes = {} /\ appended = <<>>
    /\ queueCalls = <<>> /\ reported = <<>>
    /\ rp = NoCall

\* several runs over a small mailbox
Init == scenario \in 1..Len(SmallBoxes) /\ InitRun

\* runs over the mailbox of twelve candidates (two macro-batches)
InitBig == scenario = BigScenario /\ InitRun

Next ==
    \/ \E u \in BOOLEAN, d \in ManualDates : StartRun(u, d)
    \/ ReadLogOk
    \/ ReadLogMissing
    \/ ReadLogFail
    \/ \E n \in PageSizes : ListPage(n)
    \/ \E id \in MessageIds : GetResolve(id)
    \/ \E id \in MessageIds : GetReject(id)
    \/ ChunkDone
    \/ GetStructureOk
    \/ CreateOk
    \/ HeadersOk
    \/ RowCountOk
    \/ WriteOk
    \/ AppendOk
    \/ DestFail
    \/ SummaryOk
    \/ SummaryFail

Spec == Init /\ [][Next]_vars

\* a run of processEmails starts while no reprocessHeldEmailWithDates call
\* is in progress, with the default parameters
StartRunBetweenCalls ==
    /\ rp.pc = "idle"
    /\ StartRun(TRUE, "")

\* reprocessHeldEmailWithDates is called while no run is in progress
StartReprocessBetweenRuns(messageId, sd, ed) ==
    /\ pc = "idle"
    /\ StartReprocess(messageId, sd, ed)

\* runs of processEmails without failure and calls of
\* reprocessHeldEmailWithDates, one after the other
NextReprocess ==
    \/ StartRunBetweenCalls
    \/ ReadLogOk
    \/ ReadLogMissing
    \/ \E n \in PageSizes : ListPage(n)
    \/ \E id \in MessageIds : GetResolve(id)
    \/ ChunkDone
    \/ GetStructureOk
    \/ CreateOk
    \/ HeadersOk
    \/ RowCountOk
    \/ WriteOk
    \/ AppendOk
    \/ SummaryOk
    \/ \E id \in MessageIds, sd \in ManualStarts, ed \in ManualEnds :
          StartReprocessBetweenRuns(id, sd, ed)
    \/ ReprocessGetOk
    \/ ReprocessGetFail
    \/ ReprocessStructureOk
    \/ ReprocessCreateOk
    \/ ReprocessHeadersOk
    \/ ReprocessRowCountOk
    \/ ReprocessWriteOk
    \/ ReprocessAppendOk
    \/ ReprocessDestFail

SpecReprocess == Init /\ [][NextReprocess]_vars

\* the awaits of processEmails at which one call is outstanding
SingleAwaits == {"readlog", "list", "structure", "create", "headers", "rowcount",
                 "write", "append", "summary"}

\* the call the run awaits at l returns and the run moves on
Returns(l) == pc = l /\ pc' \in (SingleAwaits \cup {"idle", "fetching"}) \ {l}

\* one of the users.messages.get calls of the chunk settles
GetSettles == pc = "fetching" /\ inflight' \in (SUBSET inflight) \ {inflight}

\* runs over a small mailbox or over the mailbox of twelve candidates
InitLive == scenario \in (1..Len(SmallBoxes)) \cup {BigScenario} /\ InitRun

NextLive ==
    \/ \E u \in BOOLEAN, d \in ManualDates : StartRun(u, d)
    \/ ReadLogOk
    \/ ReadLogMissing
    \/ \E n \in PageSizes : ListPage(n)
    \/ \E id \in MessageIds : GetResolve(id)
    \/ ChunkDone
    \/ GetStructureOk
    \/ CreateOk
    \/ HeadersOk
    \/ RowCountOk
    \/ WriteOk
    \/ AppendOk
    \/ SummaryOk

\* every external call returns successfully, and does so eventually
SpecLive ==
    /\ InitLive /\ [][NextLive]_vars
    /\ \A l \in SingleAwaits : WF_pc(Returns(l))
    /\ WF_inflight(GetSettles)
    /\ WF_vars(ChunkDone)

\* addSheet for a title that another caller created in the meantime: the
\* store refuses the whole mutation and the run rejects
CreateConflict ==
    /\ pc = "create"
    /\ Range(sheetsToCreate) \cap DOMAIN sheets # {}
    /\ outcome' = [kind |-> "rejected", at |-> pc, batch |-> batchIndex]
    /\ pc' = "idle"
    /\ UNCHANGED <<envVars, queryVars, batchVars, destVars, totalProcessed, tasks,
                   histVars, rp>>

\* the same refusal inside reprocessHeldEmailWithDates: caught, error returned
ReprocessCreateConflict ==
    /\ rp.pc = "create"
    /\ Range(rp.toCreate) \cap DOMAIN sheets # {}
    /\ ReprocessCaught("A sheet with that name already exists.")
    /\ UNCHANGED <<envVars, pc, queryVars, batchVars, destVars, totalProcessed, outcome,
                   fetched, logAtStart, writes, appended, queueCalls>>

\* a default run of processEmails over the first small mailbox and one
\* reprocessHeldEmailWithDates call for July 2025, interleaved at every
\* await; no call fails by itself
InitRace == scenario = 1 /\ InitRun

NextRace ==
    \/ StartRun(TRUE, "")
    \/ ReadLogOk
    \/ ReadLogMissing
    \/ \E n \in PageSizes : ListPage(n)
    \/ \E id \in MessageIds : GetResolve(id)
    \/ ChunkDone
    \/ GetStructureOk
    \/ CreateOk
    \/ CreateConflict
    \/ HeadersOk
    \/ RowCountOk
    \/ WriteOk
    \/ AppendOk
    \/ SummaryOk
    \/ \E id \in MessageIds : StartReprocess(id, "2025-07-15", "2025-07-20")
    \/ ReprocessGetOk
    \/ ReprocessStructureOk
    \/ ReprocessCreateOk
    \/ ReprocessCreateConflict
    \/ ReprocessHeadersOk
    \/ ReprocessRowCountOk
    \/ ReprocessWriteOk
    \/ ReprocessAppendOk

SpecRace == InitRace /\ [][NextRace]_vars

\* the operator's session over the first small mailbox: runs of
\* processEmails with the default settings or from the first of August, and
\* calls of reprocessHeldEmailWithDates for July 2025, one after the other;
\* no call fails
InitManual == scenario = RepeatScenario /\ InitRun

NextManual ==
    \/ \E d \in {"", "2025-08-01"} : rp.pc = "idle" /\ StartRun(TRUE, d)
    \/ ReadLogOk
    \/ ReadLogMissing
    \/ ListPage(MAX_RESULTS)
    \/ \E id \in MessageIds : GetResolve(id)
    \/ ChunkDone
    \/ GetStructureOk
    \/ CreateOk
    \/ HeadersOk
    \/ RowCountOk
    \/ WriteOk
    \/ AppendOk
    \/ SummaryOk
    \/ \E id \in MessageIds : StartReprocessBetweenRuns(id, "2025-07-15", "2025-07-20")
    \/ ReprocessGetOk
    \/ ReprocessStructureOk
    \/ ReprocessCreateOk
    \/ ReprocessHeadersOk
    \/ ReprocessRowCountOk
    \/ ReprocessWriteOk
    \/ ReprocessAppendOk

SpecManual == InitManual /\ [][NextManual]_vars

\* an audit log written when the huge mailbox held its oldest message only
OldestLogged ==
    (LOG_SHEET_NAME :>
        [sheetId |-> 1,
         rows    |-> << LogHeaderRow,
                        [ts |-> HugeBox[1].date, id |-> 1, status |-> "Processed",
                         org |-> "Org", title |-> "Title"] >>,
         rules   |-> 0])

\* the state before a call: the spreadsheet, the position and the parameters
\* are given, nothing is in progress
InitCall(sc, sh, nid, at, p) ==
    /\ scenario = sc
    /\ sheets = sh /\ nextSheetId = nid
    /\ runs = 0 /\ getFaults = 0 /\ destFaults = 0
    /\ pc = at
    /\ params = p
    /\ gmailQuery = [from |-> SenderEmail,
                     phrases |-> <<"POA", "The request is now complete.">>,
                     after |-> NoBound]
    /\ processedIds = {} /\ allMessages = <<>> /\ pageToken = 0
    /\ batchIndex = 0 /\ chunkStart = 0 /\ inflight = {}
    /\ settled = EmptyMap /\ parsedResults = <<>>
    /\ existingSheets = EmptyMap /\ sheetsToCreate = <<>> /\ headerRequests = <<>>
    /\ sheetState = EmptyMap /\ masterRequest = <<>>
    /\ totalProcessed = 0
    /\ outcome = NoOutcome
    /\ tasks = EmptyMap
    /\ fetched = {} /\ logAtStart = <<>> /\ writes = {} /\ appended = <<>>
    /\ queueCalls = <<>> /\ reported = <<>>
    /\ rp = NoCall

\* the pagination of a run over the huge mailbox, with and without audit log
InitPages ==
    \/ InitCall(HugeScenario, EmptyMap, 1, "idle",
                [useDateFilter |-> TRUE, manualStartDate |-> ""])
    \/ InitCall(HugeScenario, OldestLogged, 2, "idle",
                [useDateFilter |-> TRUE, manualStartDate |-> ""])

\* lines 686-755: the run up to the queue callback
NextPages ==
    \/ \E u \in BOOLEAN, d \in ManualDates : StartRun(u, d)
    \/ ReadLogOk
    \/ ReadLogMissing
    \/ \E n \in PageSizes : ListPage(n)

SpecPages == InitPages /\ [][NextPages]_vars

\* runs with the default settings over the huge mailbox, the mail source
\* answering with full pages: the first run stops pagination at the cap
\* the spreadsheet such a first run leaves behind: the audit log and the one
\* month sheet hold a row for each of the MAX_MESSAGES newest messages
SheetsAfterCappedRun ==
    LET parsed(id) == fetchAndParseEmail(id, HugeBox[id]).result
        first      == HugeSize - MAX_MESSAGES
    IN  (LOG_SHEET_NAME :>
            [sheetId |-> 1,
             rows    |-> <<LogHeaderRow>> \o
                         [k \in 1..MAX_MESSAGES |-> BuildLogRows(<<parsed(first + k)>>)[1]],
             rules   |-> 0])
        @@
        ("July - 2025" :>
            [sheetId |-> 2,
             rows    |-> <<MonthHeaderRow>> \o
                         [k \in 1..MAX_MESSAGES |->
                            [src |-> first + k,
                             values |-> generateRowRequests(2, k, parsed(first + k).data.rowData,
                                                            first + k)[1].values]],
             rules   |-> MAX_MESSAGES * Len(CategoryValues)])

\* a first session on an empty spreadsheet, or a later session on the
\* spreadsheet the capped run left behind
InitCap ==
    \/ InitCall(HugeScenario, EmptyMap, 1, "idle",
                [useDateFilter |-> TRUE, manualStartDate |-> ""])
    \/ InitCall(HugeScenario, SheetsAfterCappedRun, 3, "idle",
                [useDateFilter |-> TRUE, manualStartDate |-> ""])

NextCap ==
    \/ StartRun(TRUE, "")
    \/ ReadLogOk
    \/ ReadLogMissing
    \/ ListPage(MAX_RESULTS)
    \/ \E id \in MessageIds : GetResolve(id)
    \/ ChunkDone
    \/ GetStructureOk
    \/ CreateOk
    \/ HeadersOk
    \/ RowCountOk
    \/ WriteOk
    \/ AppendOk
    \/ SummaryOk

SpecCap == InitCap /\ [][NextCap]_vars

(***************************************************************************)
(* The pure functions, applied to arguments drawn from bounded sets: the   *)
(* arguments are in params, the value returned is in outcome               *)
(***************************************************************************)
MinYear == 2024
MaxYear == 2026

\* Date objects: days that every month has
Dates == [y : MinYear..MaxYear, m : 1..12, d : {1, 2, 15, 28}]

InitMonths ==
    \E start \in Dates, end \in Dates :
       InitCall(1, EmptyMap, 1, "call",
                [fn |-> "getMonthsBetweenDates", start |-> start, end |-> end])

\* getMonthsBetweenDates(start, end).map(formatMonthYear), lines 143-151
ApplyMonths ==
    /\ pc = "call"
    /\ params.fn = "getMonthsBetweenDates"
    /\ outcome' = [kind |-> "returned",
                   value |-> monthSheetNamesOf(params.start, params.end)]
    /\ pc' = "returned"
    /\ UNCHANGED <<envVars, queryVars, batchVars, destVars, totalProcessed, tasks,
                   histVars, rp>>

NextMonths == ApplyMonths

SpecMonths == InitMonths /\ [][NextMonths]_vars

\* Texts, for the cell encoder, are sequences of pieces: a double quote is a
\* piece of its own, a scheme prefix is one piece, "a" is any other text.
MaxTextLen == 2

Quote == "\""

Pieces == {"a", Quote, "http://", "HTTPS://"}

Texts == UNION {[1..n -> Pieces] : n \in 0..MaxTextLen}

\* no replacement at all
escapeQuotes_None(s) == s

\* s.replace(/"/g, '""')
escapeQuotes(s) ==
    Flatten([i \in 1..Len(s) |-> IF s[i] = Quote THEN <<Quote, Quote>> ELSE <<s[i]>>])

\* /^https?:\/\//i.test(s)
IsHttpUrl(s) == s # <<>> /\ s[1] \in {"http://", "HTTPS://"}

hyperlinkFormula(url, text) ==
    <<"=HYPERLINK(", Quote>> \o url \o <<Quote, ",", Quote>> \o text \o <<Quote, ")">>

\* cells of rowData: a string [text], {formula}, {hyperlink: {url, text?}}
CellValues ==
    {[text |-> t] : t \in Texts}
    \cup {[formula |-> t] : t \in Texts}
    \cup {[hyperlink |-> [url |-> u, text |-> t]] : u \in Texts, t \in Texts}
    \cup {[hyperlink |-> [url |-> u]] : u \in Texts}

\* the callback of rowData.map, lines 461-482
userEnteredValue(val, idx) ==
    IF "formula" \in DOMAIN val
    THEN [formulaValue |-> val.formula]
    ELSE IF "hyperlink" \in DOMAIN val /\ val.hyperlink.url # <<>>
    THEN [formulaValue |->
            hyperlinkFormula(escapeQuotes(val.hyperlink.url),
                             escapeQuotes(IF "text" \in DOMAIN val.hyperlink
                                          THEN val.hyperlink.text
                                          ELSE val.hyperlink.url))]
    ELSE IF idx = 9 /\ "text" \in DOMAIN val /\ IsHttpUrl(val.text)
    THEN [formulaValue |-> hyperlinkFormula(escapeQuotes(val.text), <<"PDF LINK">>)]
    ELSE [stringValue |-> IF "text" \in DOMAIN val THEN val.text
                          ELSE <<"[object Object]">>]

\* columns a cell is tried in: the first one and 'Link Of Approved POA'
CellColumns == {0, 9}

InitCells ==
    \E val \in CellValues, idx \in CellColumns :
       InitCall(1, EmptyMap, 1, "call",
                [fn |-> "generateRowRequests", val |-> val, idx |-> idx])

\* the values of the updateCells request of generateRowRequests for a row
\* that holds the cell in the column and empty strings elsewhere
ApplyCells ==
    /\ pc = "call"
    /\ params.fn = "generateRowRequests"
    /\ outcome' = [kind |-> "returned",
                   value |-> [i \in 1..11 |->
                                userEnteredValue(IF i = params.idx + 1 THEN params.val
                                                 ELSE [text |-> <<>>], i - 1)]]
    /\ pc' = "returned"
    /\ UNCHANGED <<envVars, queryVars, batchVars, destVars, totalProcessed, tasks,
                   histVars, rp>>

NextCells == ApplyCells

SpecCells == InitCells /\ [][NextCells]_vars

\* The text of a table cell is a sequence of pieces: a piece is a run of
\* white space (" ", a line break) or a run of other characters.
MaxBodyRows == 2

IsSpace(piece) == piece \in {" ", "\n"}

\* String.prototype.trim
RECURSIVE trim(_)
trim(text) ==
    IF text = <<>> THEN <<>>
    ELSE IF IsSpace(Head(text)) THEN trim(Tail(text))
    ELSE IF IsSpace(text[Len(text)]) THEN trim(SubSeq(text, 1, Len(text) - 1))
    ELSE text

\* the string the pieces make up
RECURSIVE textOf(_)
textOf(text) == IF text = <<>> THEN "" ELSE Head(text) \o textOf(Tail(text))

CellTexts ==
    { <<>>, <<" ">>,
      <<"Title of Activity:">>, <<"\n", "Title of Activity:", " ">>,
      <<"Venue/Platform:">>, <<"toString">>,
      <<"Fair">>, <<" ", "Fair", " ", "2025", "\n">> }

\* a tr of the .response-items table: its td cells
TableRows == UNION {[1..n -> CellTexts] : n \in 1..2}

Tables == UNION {[1..n -> TableRows] : n \in 0..MaxBodyRows}

\* lines 92-98: the rows with at least two cells, as the trimmed texts of
\* the first two cells
responseRows(table) ==
    LET RECURSIVE from(_)
        from(i) == IF i > Len(table) THEN <<>>
                   ELSE IF Len(table[i]) >= 2
                        THEN << <<textOf(trim(table[i][1])), textOf(trim(table[i][2]))>> >>
                             \o from(i + 1)
                        ELSE from(i + 1)
    IN  from(1)

InitBody ==
    \E table \in Tables :
       InitCall(1, EmptyMap, 1, "call", [fn |-> "parseEmailBody", table |-> table])

\* parseEmailBody(htmlBody) when the DOM calls of lines 88-91 succeed
ApplyBody ==
    /\ pc = "call"
    /\ params.fn = "parseEmailBody"
    /\ outcome' = [kind |-> "returned", caught |-> FALSE,
                   value |-> parseEmailBody(responseRows(params.table))]
    /\ pc' = "returned"
    /\ UNCHANGED <<envVars, queryVars, batchVars, destVars, totalProcessed, tasks,
                   histVars, rp>>

\* parseEmailBody(htmlBody) when a DOM call throws: the catch of lines 107-113
\* returns the details gathered so far, which are none
ApplyBodyCaught ==
    /\ pc = "call"
    /\ params.fn = "parseEmailBody"
    /\ outcome' = [kind |-> "returned", caught |-> TRUE,
                   value |-> parseEmailBody(<<>>)]
    /\ pc' = "returned"
    /\ UNCHANGED <<envVars, queryVars, batchVars, destVars, totalProcessed, tasks,
                   histVars, rp>>

NextBody == ApplyBody \/ ApplyBodyCaught

SpecBody == InitBody /\ [][NextBody]_vars

\* Lines of the program flow are texts in pieces.  A piece that is not white
\* space is a word or the start of one: adjacent pieces make one word.
MaxFlowLines == 2

TimeRangeToken == "9:00-10:00"

FlowLines ==
    { <<>>, <<" ">>,
      <<"Opening">>,
      <<" ", "Opening", " ", "\n", "Remarks">>,
      <<"Time", " ", "Activity">>,
      <<"Time", "keeping">>,
      <<TimeRangeToken, " ", "Opening">>,
      <<TimeRangeToken, " ", "Opening", " ", "JUAN">> }

FlowInputs == UNION {[1..n -> FlowLines] : n \in 0..MaxFlowLines}

ParticipantLists == { <<>>, <<"Ana", "Juan">> }

\* String.prototype.toLowerCase on the words used here
Lower(piece) ==
    CASE piece \in {"Juan", "JUAN"} -> "juan"
      [] piece \in {"Ana"} -> "ana"
      [] piece \in {"Time", "TIME"} -> "time"
      [] OTHER -> piece

\* clean (line 192): every run of white space becomes one blank, then trim
clean(text) ==
    LET RECURSIVE squeeze(_)
        squeeze(i) ==
            IF i > Len(text) THEN <<>>
            ELSE IF IsSpace(text[i])
                 THEN IF i > 1 /\ IsSpace(text[i - 1]) THEN squeeze(i + 1)
                      ELSE <<" ">> \o squeeze(i + 1)
                 ELSE <<text[i]>> \o squeeze(i + 1)
    IN  trim(squeeze(1))

\* /^time\b/i.test(line): the word time, then the end of the line or a blank
IsHeaderLine(line) ==
    /\ line # <<>>
    /\ Lower(line[1]) \in {"time"}
    /\ (Len(line) = 1 \/ IsSpace(line[2]))

\* line.match(timeRe) succeeds: the line begins with HH:MM-HH:MM
HasTimeRange(line) == line # <<>> /\ line[1] = TimeRangeToken

\* participantsSorted.find(p => lower.endsWith(p)), as the participant found
foundParticipant(rest, participants) ==
    {p \in Range(participants) : rest # <<>> /\ Lower(rest[Len(rest)]) = Lower(p)}

\* the item pushed for a line that has a time range (lines 254-273); after
\* clean no run of two blanks is left, so the split fallback finds one part
timedItem(line, participants) ==
    LET rest  == clean(Tail(line))
        found == foundParticipant(rest, participants)
    IN  IF found # {}
        THEN [time |-> line[1],
              activity |-> textOf(clean(SubSeq(rest, 1, Len(rest) - 1))),
              inCharge |-> CHOOSE p \in found : TRUE]
        ELSE [time |-> line[1], activity |-> textOf(rest), inCharge |-> ""]

\* the header skip left out: every cleaned line is matched against timeRe
parseProgramFlow_KeepHeader(lines, participants) ==
    LET RECURSIVE from(_)
        from(i) ==
            IF i > Len(lines) THEN <<>>
            ELSE LET line == clean(lines[i])
                 IN  IF line = <<>> THEN from(i + 1)
                     ELSE IF ~HasTimeRange(line)
                     THEN <<[time |-> "", activity |-> textOf(line), inCharge |-> ""]>>
                          \o from(i + 1)
                     ELSE <<timedItem(line, participants)>> \o from(i + 1)
    IN  from(1)

\* parseProgramFlow, lines 244-277
parseProgramFlow(lines, participants) ==
    LET RECURSIVE from(_)
        from(i) ==
            IF i > Len(lines) THEN <<>>
            ELSE LET line == clean(lines[i])
                 IN  IF line = <<>> THEN from(i + 1)
                     ELSE IF IsHeaderLine(line) THEN from(i + 1)
                     ELSE IF ~HasTimeRange(line)
                     THEN <<[time |-> "", activity |-> textOf(line), inCharge |-> ""]>>
                          \o from(i + 1)
                     ELSE <<timedItem(line, participants)>> \o from(i + 1)
    IN  from(1)

InitFlow ==
    \E lines \in FlowInputs, participants \in ParticipantLists :
       InitCall(1, EmptyMap, 1, "call",
                [fn |-> "parseProgramFlow", lines |-> lines,
                 participants |-> participants])

ApplyFlow ==
    /\ pc = "call"
    /\ params.fn = "parseProgramFlow"
    /\ outcome' = [kind |-> "returned",
                   value |-> parseProgramFlow(params.lines, params.participants)]
    /\ pc' = "returned"
    /\ UNCHANGED <<envVars, queryVars, batchVars, destVars, totalProcessed, tasks,
                   histVars, rp>>

NextFlow == ApplyFlow

SpecFlow == InitFlow /\ [][NextFlow]_vars

SpecBig == InitBig /\ [][Next]_vars

(***************************************************************************)
(* Properties                                                              *)
(***************************************************************************)
\* rows the current run appended to the audit log
AppendedNow == IF runs >= 1 THEN appended[runs] ELSE <<>>

\* row writes the current run executed
WritesNow == {w \in writes : w.run = runs}

IdsOfRows(rows) == {rows[i].id : i \in {j \in DOMAIN rows : "id" \in DOMAIN rows[j]}}

TimesOfRows(rows) ==
    {rows[i].ts : i \in {j \in DOMAIN rows : "ts" \in DOMAIN rows[j] /\ rows[j].ts # NoDate}}

\* the rows of the audit log below its first row, as the run found them
CursorRowsAtStart == IF logAtStart = <<>> THEN <<>> ELSE Tail(logAtStart)

Untouched(id) ==
    /\ id \notin fetched
    /\ \A w \in WritesNow : w.src # id
    /\ id \notin IdsOfRows(AppendedNow)

DefaultRun == runs >= 1 /\ params.useDateFilter /\ params.manualStartDate = ""

RoutedTo(title) ==
    {r \in Range(parsedResults) :
        r.status = "success" /\ title \in Range(r.data.monthSheetNames)}

RoutedTitles ==
    UNION {Range(r.data.monthSheetNames) :
             r \in {x \in Range(parsedResults) : x.status = "success"}}

RequestsFor(sheetId, op) ==
    {i \in DOMAIN masterRequest :
        masterRequest[i].op = op /\ masterRequest[i].sheetId = sheetId}

\* C2: when the mutation of a macro-batch is issued, for every month sheet
\* with N routed records the request holds exactly one appendDimension of
\* length N for the sheet, placed before its row writes, and exactly N row
\* writes, one per record, at the offsets c .. c+N-1 where c is the row
\* count read for the sheet (which is its row count at the write).
C2_ConsecutiveOffsets ==
    pc = "write" =>
       \A t \in RoutedTitles :
          /\ t \in DOMAIN sheetState
          /\ LET n     == Cardinality(RoutedTo(t))
                 c     == sheetState[t].lastRow
                 cells == RequestsFor(sheetState[t].sheetId, "updateCells")
                 ext   == RequestsFor(sheetState[t].sheetId, "appendDimension")
             IN  /\ c = Len(sheets[t].rows)
                 /\ Cardinality(ext) = 1
                 /\ \A e \in ext : /\ masterRequest[e].length = n
                                   /\ \A i \in cells : e < i
                 /\ Cardinality(cells) = n
                 /\ {masterRequest[i].rowIndex : i \in cells} = c..(c + n - 1)
                 /\ {masterRequest[i].src : i \in cells}
                       = {r.data.messageId : r \in RoutedTo(t)}

\* a mutation that routes at least two records to a sheet that already holds
\* records
C2_Witness ==
    /\ pc = "write"
    /\ \E t \in RoutedTitles :
          /\ Cardinality(RoutedTo(t)) >= 2
          /\ t \in DOMAIN sheetState /\ sheetState[t].lastRow >= 2

\* C3: no two row writes ever target the same (sheet, offset), no row write
\* targets an offset below the row count the sheet has when the write is
\* executed, and the row counts a mutation was built from are the row counts
\* its month sheets have when it is issued (read after the previous
\* macro-batch).
C3_NoRowCollision ==
    /\ \A w1, w2 \in writes :
          (w1.title = w2.title /\ w1.rowIndex = w2.rowIndex) => w1 = w2
    /\ \A w \in writes : w.rowIndex >= w.rowsBefore
    /\ pc = "write" =>
          \A t \in RoutedTitles : sheetState[t].lastRow = Len(sheets[t].rows)

\* one run wrote to the same sheet in two different macro-batches
C3_Witness ==
    \E w1, w2 \in writes :
       w1.run = w2.run /\ w1.title = w2.title /\ w1.batch # w2.batch

\* C4, as stated: the after: bound of a filtered run equals the newest
\* timestamp among the rows the previous run appended.
C4_BoundIsPreviousRunMax ==
    (DefaultRun /\ runs >= 2 /\ pc = "list" /\ TimesOfRows(appended[runs - 1]) # {})
       => gmailQuery.after = UnixSeconds(MaxOf(TimesOfRows(appended[runs - 1])))

\* C4, amended: the after: bound of a filtered run equals the newest
\* timestamp among all rows below the first row of the audit log at the
\* start of the run, whichever run appended them; the query has no after:
\* term when no such row carries a timestamp.
C4_BoundIsLogMax ==
    (DefaultRun /\ pc = "list")
       => gmailQuery.after =
             IF TimesOfRows(CursorRowsAtStart) # {}
             THEN UnixSeconds(MaxOf(TimesOfRows(CursorRowsAtStart))) ELSE NoBound

\* a filtered run whose bound comes from the log and whose log is not sorted
C4_Witness ==
    /\ DefaultRun /\ runs >= 2 /\ pc = "list"
    /\ gmailQuery.after # NoBound
    /\ \E i, j \in DOMAIN CursorRowsAtStart :
          /\ i < j
          /\ CursorRowsAtStart[i].ts # NoDate /\ CursorRowsAtStart[j].ts # NoDate
          /\ CursorRowsAtStart[i].ts > CursorRowsAtStart[j].ts

(***************************************************************************)
(* What the mails of the mailboxes are, stated from their bodies           *)
(***************************************************************************)
KindOf(id) == Mailbox[id].kind

\* the body has no usable start date / end date
StartUnusable(id) == KindOf(id) \in {"noStart", "noDates", "noTitleNoStart"}
EndUnusable(id) == KindOf(id) \in {"badEnd", "noDates"}

\* the body has no organization or no title
OrgOrTitleAbsent(id) == KindOf(id) \in {"noOrg", "noTitleNoStart"}

\* extraction of the body fails: no HTML part, or the rich extractor throws
ExtractionFails(id) == KindOf(id) \in {"noHtml", "poison"}

UnusableDateNames(id) ==
    IF StartUnusable(id) /\ EndUnusable(id) THEN "Start Date & End Date"
    ELSE IF StartUnusable(id) THEN "Start Date" ELSE "End Date"

\* the month sheets the dates of the body span
MonthsOfBody(id) ==
    CASE KindOf(id) = "summer"   -> {"July - 2025", "August - 2025", "September - 2025"}
      [] KindOf(id) = "newyear"  -> {"December - 2025", "January - 2026"}
      [] KindOf(id) = "reversed" -> {}
      [] OTHER                   -> {"July - 2025"}

GetFailedText == "mail source unavailable"

\* results the current macro-batch holds
ResultsNow == Range(parsedResults) \cup {settled[i] : i \in DOMAIN settled}

ResultId(r) == IF r.status = "success" THEN r.data.messageId ELSE r.messageId

\* messages.get resolved for the result (it is not the catch of a rejected get)
GetResolved(r) == ~(r.status = "error" /\ r.error = GetFailedText)

PositionOf(id) == CHOOSE i \in DOMAIN allMessages : allMessages[i] = id

BatchOf(id) == (PositionOf(id) - 1) \div BATCH_SIZE

\* the macro-batch of a candidate of the current run has run to its end
Committed(id) ==
    /\ id \in Range(allMessages)
    /\ \/ BatchOf(id) < batchIndex
       \/ pc = "summary"
       \/ pc = "idle" /\ outcome.kind = "returned"

\* C5: a fetched message whose body has no usable start or end date gets the
\* held result whose reason names exactly the unusable dates, its task is
\* held, and once its macro-batch has appended to the audit log the log holds
\* a held row for it.
C5_HeldOnUnusableDates ==
    /\ \A r \in ResultsNow :
          (GetResolved(r) /\ Mailbox[ResultId(r)].html
             /\ (StartUnusable(ResultId(r)) \/ EndUnusable(ResultId(r))))
          => /\ r.status = "held"
             /\ r.reason = UnusableDateNames(ResultId(r)) \o " missing or invalid"
             /\ tasks[ResultId(r)].status = "held"
    /\ \A id \in Range(allMessages) :
          (Committed(id) /\ tasks[id].status # "error"
             /\ (StartUnusable(id) \/ EndUnusable(id)))
          => /\ tasks[id].status = "held"
             /\ \E i \in DOMAIN AppendedNow :
                   AppendedNow[i].id = id /\ AppendedNow[i].status = "Held (dates needed)"

\* the macro-batch of a message with an unparseable end date ran to its end:
\* its task is held and its held row is in the audit log
C5_Witness ==
    \E i \in DOMAIN AppendedNow :
       /\ AppendedNow[i].status = "Held (dates needed)"
       /\ Committed(AppendedNow[i].id)
       /\ tasks[AppendedNow[i].id].status = "held"
       /\ EndUnusable(AppendedNow[i].id)

\* C6, as stated: once the macro-batch of a fetched message whose body has no
\* organization or no title has run to its end, the task of the message is
\* error and no row of it is written.
C6_MissingOrganizationIsError ==
    \A id \in Range(allMessages) :
       (Committed(id) /\ tasks[id].error # GetFailedText /\ OrgOrTitleAbsent(id))
       => /\ tasks[id].status = "error"
          /\ \A w \in WritesNow : w.src # id

ExpectedStatus(id) ==
    IF ExtractionFails(id) \/ OrgOrTitleAbsent(id) THEN "error"
    ELSE IF StartUnusable(id) \/ EndUnusable(id) THEN "held"
    ELSE "done"

WithStatus(status) == {id \in Range(allMessages) : tasks[id].status = status}

\* C7, as stated: when a run in which no call failed returns, every candidate
\* is done, held or error as its body demands (error without organization,
\* held with unusable dates, done otherwise), the audit log gained exactly one
\* row per done or held candidate and none per error candidate, and twelve
\* candidates of which two have unusable dates and one no organization give
\* 9 done, 2 held, 1 error and 11 new rows.
C7_EndToEnd ==
    (pc = "idle" /\ outcome.kind = "returned" /\ allMessages # <<>>
        /\ getFaults = 0 /\ destFaults = 0)
    => /\ \A id \in Range(allMessages) : tasks[id].status = ExpectedStatus(id)
       /\ \A id \in Range(allMessages) :
             Cardinality({i \in DOMAIN AppendedNow : AppendedNow[i].id = id})
                = IF ExpectedStatus(id) = "error" THEN 0 ELSE 1
       /\ Len(allMessages) = 12 =>
             /\ Cardinality(WithStatus("done")) = 9
             /\ Cardinality(WithStatus("held")) = 2
             /\ Cardinality(WithStatus("error")) = 1
             /\ Len(AppendedNow) = 11

RejectedByDestination ==
    pc = "idle" /\ outcome.kind = "rejected" /\ outcome.at \in DestCalls

\* C8, as stated: after a run was aborted by a failed destination call of a
\* macro-batch, no record of that macro-batch is in a month sheet and none of
\* its ids is in the audit log.
C8_NoPartialCommit ==
    RejectedByDestination =>
       \A id \in Range(batchMessagesOf(allMessages, batchIndex)) :
          /\ \A w \in WritesNow : w.src # id
          /\ id \notin IdsOfRows(AppendedNow)

LaterThan(k) == {id \in Range(allMessages) : BatchOf(id) > k}

\* C9: after a destination call failed in macro-batch k the run has rejected
\* with the failure of that call; no message of a later macro-batch was
\* fetched, written or logged and their tasks are still queued; and no task of
\* macro-batch k carries the status error unless its own result is an error.
C9_AbortsOnDestinationFailure ==
    RejectedByDestination =>
       /\ outcome.batch = batchIndex
       /\ fetched \cap LaterThan(outcome.batch) = {}
       /\ \A w \in WritesNow : w.batch <= outcome.batch /\ w.src \notin LaterThan(outcome.batch)
       /\ IdsOfRows(AppendedNow) \cap LaterThan(outcome.batch) = {}
       /\ \A id \in LaterThan(outcome.batch) : tasks[id].status = "queued"
       /\ \A id \in Range(batchMessagesOf(allMessages, batchIndex)) :
             tasks[id].status = "error" =>
                \E r \in Range(parsedResults) : r.status = "error" /\ r.messageId = id

\* the first of two macro-batches was aborted after its records were classified
C9_Witness ==
    /\ RejectedByDestination
    /\ LaterThan(outcome.batch) # {}
    /\ \E r \in Range(parsedResults) : r.status = "success"

\* C10: a failed messages.get or a failed extraction never rejects the run;
\* the task of the message is error with the message of its error result;
\* and in every macro-batch that ran to its end every other message is done
\* or held and logged, a done one with its row in every month sheet its dates
\* span.
C10_LocalFailuresIsolated ==
    /\ outcome.kind = "rejected" => outcome.at \in DestCalls \cup {"readlog"}
    /\ \A r \in ResultsNow :
          r.status = "error" => tasks[r.messageId] = [status |-> "error", error |-> r.error]
    /\ \A id \in Range(allMessages) :
          Committed(id) =>
             IF ExtractionFails(id) \/ tasks[id].error = GetFailedText
             THEN tasks[id].status = "error"
             ELSE /\ tasks[id].status \in {"done", "held"}
                  /\ id \in IdsOfRows(AppendedNow)
                  /\ tasks[id].status = "done" =>
                        \A t \in MonthsOfBody(id) :
                           \E w \in WritesNow : w.src = id /\ w.title = t

\* a macro-batch ran to its end with one message whose get was rejected and
\* another message that is done
C10_Witness ==
    \E a, b \in Range(allMessages) :
       /\ Committed(a) /\ Committed(b) /\ BatchOf(a) = BatchOf(b)
       /\ tasks[a].status = "error" /\ tasks[a].error = GetFailedText
       /\ tasks[b].status = "done" /\ MonthsOfBody(b) # {}

\* the macro-batches the candidates are sliced into, in order
MacroBatches == [b \in 1..totalBatchesOf(allMessages) |-> batchMessagesOf(allMessages, b - 1)]

\* a call of the run was issued for the message: its fetch, a row write of it
\* or the log append of its outcome
Touched(id) ==
    \/ id \in fetched
    \/ \E w \in WritesNow : w.src = id
    \/ id \in IdsOfRows(AppendedNow)

\* the row mutation and the log append of the macro-batch of the message have
\* completed as far as the message needs them
Durable(id) ==
    /\ tasks[id].status \in {"done", "held", "error"}
    /\ tasks[id].status = "done" =>
          \A t \in MonthsOfBody(id) :
             \E w \in WritesNow : w.src = id /\ w.title = t /\ w.batch = BatchOf(id)
    /\ tasks[id].status \in {"done", "held"} =>
          \E i \in DOMAIN AppendedNow : AppendedNow[i].id = id

\* C11: the candidates are sliced in list order into macro-batches of at most
\* 10, and no call of a macro-batch (mail fetch, structure read, row-count
\* read, row mutation, log append) is issued before the row mutation and the
\* log append of every earlier macro-batch have completed.
C11_MacroBatchesSerialized ==
    pc \notin {"readlog", "list"} =>
       /\ Flatten(MacroBatches) = allMessages
       /\ \A b \in DOMAIN MacroBatches : Len(MacroBatches[b]) \in 1..BATCH_SIZE
       /\ \A w \in WritesNow : w.batch = BatchOf(w.src)
       /\ \A id \in Range(allMessages) :
             /\ Touched(id) => BatchOf(id) <= batchIndex
             /\ BatchOf(id) < batchIndex => Durable(id)

\* the second macro-batch is being fetched after the first one wrote rows and
\* appended done and held outcomes to the log
C11_Witness ==
    /\ batchIndex = 1 /\ pc = "fetching"
    /\ \E w \in WritesNow : w.batch = 0
    /\ \E a, b \in Range(allMessages) :
          /\ BatchOf(a) = 0 /\ tasks[a].status = "done"
          /\ BatchOf(b) = 0 /\ tasks[b].status = "held"

\* position of a status on the path queued, fetching, parsing,
\* {held | error | building_request}, writing, done
StatusRank(status) ==
    CASE status = "queued"   -> 0
      [] status = "fetching" -> 1
      [] status = "parsing"  -> 2
      [] status \in {"held", "error", "building_request"} -> 3
      [] status = "writing"  -> 4
      [] status = "done"     -> 5

TerminalStatuses == {"done", "held", "error"}

\* C12: in every step of a run after its tasks were queued, the status of a
\* task never moves backwards on the path queued, fetching, parsing,
\* {held | error | building_request}, writing, done, and a task that is done,
\* held or error keeps that status.
C12_StatusesMoveForward ==
    [][(runs' = runs /\ pc # "list") =>
          \A id \in DOMAIN tasks \cap DOMAIN tasks' :
             /\ StatusRank(tasks'[id].status) >= StatusRank(tasks[id].status)
             /\ tasks[id].status \in TerminalStatuses =>
                   tasks'[id].status = tasks[id].status]_vars

\* the last macro-batch of a run ended with a done, a held and an error task
C12_Witness ==
    /\ pc = "summary"
    /\ \E a, b, c \in Range(allMessages) :
          /\ tasks[a].status = "done" /\ MonthsOfBody(a) # {}
          /\ tasks[b].status = "held"
          /\ tasks[c].status = "error"

\* the manual start date of the run is a date
ManualDateParses == params.manualStartDate # "" /\ ManualTime(params.manualStartDate) # -1

\* C13, as stated: the query is from:<sender> with the two phrases and at
\* most one after: term.  Its bound is the manual start date when one that is
\* a date is supplied, and the audit log is then not consulted; otherwise,
\* with the date filter enabled and a timestamp in the log, the bound is the
\* newest log timestamp; otherwise there is no after: term.
C13_QueryPriority ==
    /\ gmailQuery.from = SenderEmail
    /\ gmailQuery.phrases = <<"POA", "The request is now complete.">>
    /\ (runs >= 1 /\ ManualDateParses) => pc # "readlog" /\ processedIds = {}
    /\ (runs >= 1 /\ pc \notin {"idle", "readlog"}) =>
          gmailQuery.after =
             IF ManualDateParses THEN UnixSeconds(ManualTime(params.manualStartDate))
             ELSE IF params.useDateFilter /\ TimesOfRows(CursorRowsAtStart) # {}
                  THEN UnixSeconds(MaxOf(TimesOfRows(CursorRowsAtStart)))
                  ELSE NoBound

\* C14: while the read of the audit log for the cursor is pending nothing
\* else of the run has been issued.  The run rejects at that read only on a
\* failure other than 'sheet absent', and then without a mail query, a queue
\* callback or a change of the spreadsheet; when the sheet is absent (error
\* code 400) the run goes on to the mail query with no after: term and an
\* empty dedup set; after the rejection nothing but a new run follows.
C14_LogReadFailure ==
    [][/\ pc = "readlog" =>
             /\ allMessages = <<>> /\ pageToken = 0 /\ fetched = {}
             /\ WritesNow = {} /\ AppendedNow = <<>>
             /\ IF pc' = "idle"
                THEN /\ destFaults' = destFaults + 1
                     /\ outcome'.kind = "rejected" /\ outcome'.at = "readlog"
                     /\ UNCHANGED <<sheets, nextSheetId, tasks, allMessages, pageToken,
                                    fetched, writes, appended, queueCalls, reported, rp>>
                ELSE /\ pc' = "list"
                     /\ destFaults' = destFaults
                     /\ outcome'.kind = "none"
                     /\ UNCHANGED <<sheets, tasks>>
                     /\ LOG_SHEET_NAME \notin DOMAIN sheets =>
                           gmailQuery'.after = NoBound /\ processedIds' = {}
       /\ (pc = "idle" /\ outcome.kind = "rejected" /\ outcome.at = "readlog") =>
             runs' = runs + 1]_vars

\* a run was rejected by the read of an existing audit log that an earlier run,
\* which had found no log sheet, created and filled
C14_Witness ==
    /\ pc = "idle" /\ outcome.kind = "rejected" /\ outcome.at = "readlog"
    /\ runs >= 2 /\ appended[1] # <<>>
    /\ LOG_SHEET_NAME \in DOMAIN sheets

\* C15, as stated: the candidate list handed to the macro-batch loop never
\* holds more than 1000 ids, whatever the sizes of the pages and the dedup set.
C15_CandidateCap ==
    pc \notin {"idle", "readlog", "list"} => Len(allMessages) <= MAX_MESSAGES

\* number of the month of a date, counted from year 0
MonthIndex(date) == date.y * 12 + (date.m - 1)

\* the label of the month with a given number
LabelOfIndex(k) == MonthName[(k % 12) + 1] \o " - " \o ToString(k \div 12)

\* C16: for a start date not after the end date the month bucketer returns
\* the labels of the consecutive months from the month of start to the month
\* of end, both included, in order: (endYear*12 + endMonth) - (startYear*12 +
\* startMonth) + 1 labels, also across the turn of a year.
C16_MonthBucketer ==
    (pc = "returned" /\ params.fn = "getMonthsBetweenDates"
        /\ DateLeq(params.start, params.end))
    => outcome.value =
          [i \in 1..(MonthIndex(params.end) - MonthIndex(params.start) + 1) |->
              LabelOfIndex(MonthIndex(params.start) + (i - 1))]

\* 2025-07-15 to 2025-09-02 gave July, August and September 2025
C16_Witness ==
    /\ pc = "returned" /\ params.fn = "getMonthsBetweenDates"
    /\ params.start = [y |-> 2025, m |-> 7, d |-> 15]
    /\ params.end = [y |-> 2025, m |-> 9, d |-> 2]
    /\ outcome.value = <<"July - 2025", "August - 2025", "September - 2025">>

\* the end date of the body is before its start date
EndPrecedesStart(id) == KindOf(id) = "reversed"

\* C17, as stated (normal path): a fetched message whose end date precedes
\* its start date is held or rejected: its result is never a success, its
\* task is never done and no 'Processed' row of it is appended to the log.
C17_ReversedDatesRejected ==
    /\ \A r \in ResultsNow :
          (GetResolved(r) /\ EndPrecedesStart(ResultId(r))) => r.status # "success"
    /\ \A id \in Range(allMessages) :
          (pc \notin {"readlog", "list"} /\ EndPrecedesStart(id)) =>
             /\ tasks[id].status # "done"
             /\ \A i \in DOMAIN AppendedNow :
                   AppendedNow[i].id = id => AppendedNow[i].status # "Processed"

\* t is s with every double quote doubled and nothing else changed
RECURSIVE IsDoubled(_, _)
IsDoubled(s, t) ==
    IF s = <<>> THEN t = <<>>
    ELSE IF s[1] = Quote
         THEN Len(t) >= 2 /\ t[1] = Quote /\ t[2] = Quote
              /\ IsDoubled(Tail(s), Tail(Tail(t)))
         ELSE Len(t) >= 1 /\ t[1] = s[1] /\ IsDoubled(Tail(s), Tail(t))

\* v is the formula =HYPERLINK("<u>","<t>") with u and t the quote-doubled
\* url and text
IsHyperlinkOf(v, url, text) ==
    /\ DOMAIN v = {"formulaValue"}
    /\ \E n \in 0..Len(v.formulaValue) :
          LET f == v.formulaValue
              u == SubSeq(f, 3, 2 + n)
              t == SubSeq(f, 6 + n, Len(f) - 2)
          IN  /\ Len(f) >= n + 7
              /\ SubSeq(f, 1, 2) = <<"=HYPERLINK(", Quote>>
              /\ SubSeq(f, 3 + n, 5 + n) = <<Quote, ",", Quote>>
              /\ SubSeq(f, Len(f) - 1, Len(f)) = <<Quote, ")">>
              /\ IsDoubled(url, u) /\ IsDoubled(text, t)

\* the cell the encoder was applied to, and what it made of it
EncodedCell == outcome.value[params.idx + 1]

CellsReturned == pc = "returned" /\ params.fn = "generateRowRequests"

\* C18, as stated: a {url, text} hyperlink cell becomes the formula
\* =HYPERLINK("<url>","<text>") with every double quote of url and text
\* doubled and nothing else changed, a formula cell is passed through
\* unchanged, and any other cell becomes a plain string value.
C18_CellEncoding ==
    CellsReturned =>
       LET val == params.val
       IN  IF "formula" \in DOMAIN val THEN EncodedCell = [formulaValue |-> val.formula]
           ELSE IF "hyperlink" \in DOMAIN val
           THEN ("text" \in DOMAIN val.hyperlink /\ val.hyperlink.url # <<>>)
                   => IsHyperlinkOf(EncodedCell, val.hyperlink.url, val.hyperlink.text)
           ELSE EncodedCell = [stringValue |-> val.text]

\* C18, amended: as stated, except that a string cell in column 9 ('Link Of
\* Approved POA') that starts with http:// or https:// becomes the formula
\* =HYPERLINK("<cell>","PDF LINK") with the double quotes of the cell doubled;
\* a hyperlink cell without text uses its url as text.
C18_CellEncodingColumn9 ==
    CellsReturned =>
       LET val == params.val
       IN  /\ \A i \in 1..11 : i # params.idx + 1 =>
                 outcome.value[i] = [stringValue |-> <<>>]
           /\ IF "formula" \in DOMAIN val THEN EncodedCell = [formulaValue |-> val.formula]
              ELSE IF "hyperlink" \in DOMAIN val
              THEN val.hyperlink.url # <<>> =>
                      IsHyperlinkOf(EncodedCell, val.hyperlink.url,
                                    IF "text" \in DOMAIN val.hyperlink
                                    THEN val.hyperlink.text ELSE val.hyperlink.url)
              ELSE IF params.idx = 9 /\ IsHttpUrl(val.text)
              THEN IsHyperlinkOf(EncodedCell, val.text, <<"PDF LINK">>)
              ELSE EncodedCell = [stringValue |-> val.text]

\* a hyperlink cell with a double quote in its url and in its text was encoded
C18_Witness ==
    /\ CellsReturned
    /\ "hyperlink" \in DOMAIN params.val /\ "text" \in DOMAIN params.val.hyperlink
    /\ Quote \in Range(params.val.hyperlink.url)
    /\ Quote \in Range(params.val.hyperlink.text)
    /\ "formulaValue" \in DOMAIN EncodedCell

\* C19: at every moment at most CHUNK_SIZE fetchAndParseEmail operations are
\* in flight, and an operation starts only when no operation of the chunk
\* before it is still unsettled, every one of that chunk having a result.
C19_ChunkBarrier ==
    [][/\ Cardinality(inflight') <= CHUNK_SIZE
       /\ inflight' \ inflight # {} =>
             /\ inflight = {}
             /\ pc = "fetching" =>
                   Range(Slice(batchMessagesOf(allMessages, batchIndex),
                               chunkStart, chunkStart + CHUNK_SIZE)) \subseteq DOMAIN settled]_vars

\* the second chunk of a macro-batch is in flight, none of it settled
C19_Witness ==
    /\ pc = "fetching"
    /\ chunkStart = CHUNK_SIZE
    /\ Cardinality(inflight) = CHUNK_SIZE
    /\ settled = EmptyMap

\* C20: the candidates are queued oldest first, and the timestamps of the
\* rows a run appends to the audit log never decrease in append order.
C20_LogTimestampsMonotonic ==
    /\ pc \notin {"idle", "readlog", "list"} =>
          \A i, j \in 1..Len(allMessages) :
             i < j => Mailbox[allMessages[i]].at <= Mailbox[allMessages[j]].at
    /\ \A r \in DOMAIN appended :
          \A i, j \in 1..Len(appended[r]) :
             (i < j /\ appended[r][i].ts # NoDate /\ appended[r][j].ts # NoDate)
                => appended[r][i].ts <= appended[r][j].ts

\* the rows of the audit log that are on hold, whatever their position
HeldLogged == {r \in LogRowsAll : r.status = "Held (dates needed)"}

\* positions, below the first row of the audit log, of the rows on hold
HeldBelowFirstRow ==
    {k \in 2..Len(LogSheetRows) :
        /\ "status" \in DOMAIN LogSheetRows[k]
        /\ LogSheetRows[k].status = "Held (dates needed)"}

RunReturned == pc = "idle" /\ outcome.kind = "returned"

\* C21, as stated: every run that returns, one without candidates included,
\* has read the audit log in a final pass and, when the log holds held rows,
\* has emitted a message that lists every one of them.
C21_FinalPassAlways ==
    (RunReturned /\ outcome.finalRead # "failed") =>
       /\ outcome.finalRead = "ok"
       /\ {n.id : n \in Range(outcome.heldNotice)} = {r.id : r \in HeldLogged}

\* C21, amended: a run that had at least one candidate and whose final read
\* of the audit log succeeds lists every held row below the first row of the
\* log, once each, with its organization, title and message id; a run
\* without candidates returns before the final pass, and a run whose final
\* read fails returns as well, both without such a message.
C21_FinalPassAfterBatches ==
    RunReturned =>
       /\ allMessages = <<>> <=> outcome.finalRead = "skipped"
       /\ outcome.finalRead = "ok" =>
             /\ Len(outcome.heldNotice) = Cardinality(HeldBelowFirstRow)
             /\ Range(outcome.heldNotice) =
                   {[org |-> LogSheetRows[k].org, title |-> LogSheetRows[k].title,
                     id |-> LogSheetRows[k].id] : k \in HeldBelowFirstRow}
       /\ outcome.finalRead # "ok" => outcome.heldNotice = <<>>

\* a run with candidates returned and listed a held row of an earlier run
C21_Witness ==
    /\ RunReturned /\ outcome.finalRead = "ok"
    /\ outcome.heldNotice # <<>>
    /\ \E n \in Range(outcome.heldNotice) : n.id \notin IdsOfRows(AppendedNow)

\* ids of the tasks the run queued
QueuedIds ==
    UNION {{queueCalls[c][i].id : i \in DOMAIN queueCalls[c]} : c \in DOMAIN queueCalls}

\* ids the run has passed to updateTask or updateTasksBulk so far
UpdatedIds ==
    fetched \cup inflight \cup DOMAIN settled \cup SuccessIds(parsedResults)
            \cup HeldIds(parsedResults)

\* queue was called once with the candidates, oldest first, all 'queued'
QueuedOnce ==
    /\ Len(queueCalls) = 1
    /\ Len(queueCalls[1]) = Len(allMessages)
    /\ \A i \in DOMAIN queueCalls[1] :
          /\ queueCalls[1][i].id = allMessages[i]
          /\ queueCalls[1][i].status = "queued"
    /\ \A i, j \in DOMAIN queueCalls[1] :
          i < j => Mailbox[queueCalls[1][i].id].at < Mailbox[queueCalls[1][j].id].at

\* C22, as stated: every run that returns has called queue once, with one
\* queued task per candidate in processing order, and before any task update.
C22_QueuedOnceEveryRun ==
    RunReturned => QueuedOnce

\* C22, amended: a run that has a candidate calls queue once, when pagination
\* ends, with one queued task per candidate, oldest first; no task is updated
\* before that call and every id passed to updateTask or updateTasksBulk is
\* in the queued list.  A run without candidates never calls queue.
C22_QueuedOnceBeforeUpdates ==
    [][/\ queueCalls' = <<>> =>
             /\ tasks' = tasks
             /\ pc' \in {"idle", "readlog", "list"}
             /\ fetched' = {}
       /\ queueCalls' # <<>> =>
             /\ QueuedOnce'
             /\ UpdatedIds' \subseteq QueuedIds'
             /\ DOMAIN tasks' = QueuedIds'
       /\ (pc' = "idle" /\ outcome'.kind = "returned") =>
             (queueCalls' = <<>> <=> allMessages' = <<>>)]_vars

\* the second macro-batch is running on the tasks queued by the one call
C22_Witness ==
    /\ Len(queueCalls) = 1 /\ Len(queueCalls[1]) > BATCH_SIZE
    /\ batchIndex = 1 /\ pc = "fetching"
    /\ \E id \in DOMAIN tasks : tasks[id].status = "done"

\* the message is one processEmails classifies held
IsHeldMessage(id) == fetchAndParseEmail(id, Mailbox[id]).result.status = "held"

\* the month sheets from the month of the manual start date to the month of
\* the manual end date
ManualMonths ==
    {LabelOfIndex(k) : k \in MonthIndex(NewDate(rp.manualStartDate))
                              .. MonthIndex(NewDate(rp.manualEndDate))}

\* row writes of the current reprocessHeldEmailWithDates call
ManualWrites == {w \in writes : w.run = 0 /\ w.batch = rp.calls}

\* rows of the audit log written by reprocessHeldEmailWithDates
ManualLogRows ==
    {k \in DOMAIN LogSheetRows :
        /\ "status" \in DOMAIN LogSheetRows[k]
        /\ LogSheetRows[k].status = "Processed (manual dates)"}

\* a fault of the mail source or of the destination happens in the step
FaultStep == getFaults' # getFaults \/ destFaults' # destFaults

\* C23: a reprocessHeldEmailWithDates call for a held message with valid
\* manual dates, start not after end, and no external failure never ends in
\* error; it reports fetching, parsing, building_request, writing, done in
\* that order, writes exactly one row of the message, at the row count of
\* the sheet, to every month sheet between the two dates, then appends
\* exactly one 'Processed (manual dates)' row to the audit log and returns
\* done.
C23_HeldIsRecoverable ==
    [][(rp'.messageId \in MessageIds /\ IsHeldMessage(rp'.messageId)) =>
         /\ (rp' # rp /\ "status" \in DOMAIN rp'.result /\ rp'.result.status = "error") =>
               \/ FaultStep
               \/ ManualDatesError(rp'.manualStartDate, rp'.manualEndDate) # ""
         /\ (rp.pc # "idle" /\ rp'.pc = "idle" /\ ~FaultStep) =>
               /\ rp'.result = [status |-> "done"]
               /\ reported' = <<"fetching", "parsing", "building_request", "writing", "done">>
               /\ tasks' = PatchStatus(tasks, {rp.messageId}, "done")
               /\ {w.title : w \in ManualWrites} = ManualMonths
               /\ Cardinality(ManualWrites) = Cardinality(ManualMonths)
               /\ \A w \in ManualWrites :
                     /\ w.src = rp.messageId
                     /\ w.rowIndex = w.rowsBefore
                     /\ sheets'[w.title].rows[w.rowIndex + 1].src = rp.messageId
               /\ writes' = writes
               /\ ManualLogRows' = ManualLogRows \cup {Len(LogSheetRows')}
               /\ Len(LogSheetRows') = Len(LogSheetRows) + 1
               /\ LogSheetRows'[Len(LogSheetRows')].id = rp.messageId]_vars

\* a message held by a run was reprocessed with dates that span three months
C23_Witness ==
    /\ rp.pc = "idle" /\ rp.calls > 0 /\ rp.result = [status |-> "done"]
    /\ IsHeldMessage(rp.messageId)
    /\ rp.messageId \in {r.id : r \in HeldLogged}
    /\ Cardinality(ManualWrites) = 3

\* ids with a 'Held' row in the audit log when the run started
HeldAtStart ==
    {logAtStart[k].id : k \in {j \in DOMAIN logAtStart :
        /\ "status" \in DOMAIN logAtStart[j]
        /\ logAtStart[j].status = "Held (dates needed)"}}

DayNumber(date) == date.y * 10000 + date.m * 100 + date.d

\* a manual date does not parse, or the start is after the end
ManualDatesRejected(sd, ed) ==
    \/ NewDate(sd) = NaN
    \/ NewDate(ed) = NaN
    \/ DayNumber(NewDate(sd)) > DayNumber(NewDate(ed))

\* the step is a call of reprocessHeldEmailWithDates
CallStep == rp'.calls = rp.calls + 1

\* the task of the call, when the host has one, is set to error
TaskSetToError ==
    /\ DOMAIN tasks' = DOMAIN tasks
    /\ \A id \in DOMAIN tasks :
          IF id = rp'.messageId
          THEN tasks'[id] = [status |-> "error", error |-> rp'.result.message]
          ELSE tasks'[id] = tasks[id]

\* C25: reprocessHeldEmailWithDates never rejects.  With an unparseable
\* manual date or a start after the end it issues no call, leaves the
\* destination unchanged, sets the task to error and returns {status:
\* 'error'} with the validation message; when a later call fails it returns
\* {status: 'error'} with the task set to error; every call that ends
\* returns done or error.
C25_ReprocessNeverRejects ==
    [][/\ (CallStep /\ ManualDatesRejected(rp'.manualStartDate, rp'.manualEndDate)) =>
             /\ rp'.pc = "idle"
             /\ rp'.result.status = "error"
             /\ rp'.result.message \in {"Please provide valid Start and End dates.",
                                        "Start Date must be on or before End Date."}
             /\ (rp'.result.message = "Please provide valid Start and End dates.")
                   <=> (NewDate(rp'.manualStartDate) = NaN \/ NewDate(rp'.manualEndDate) = NaN)
             /\ TaskSetToError
             /\ reported' = <<"error">>
             /\ UNCHANGED <<sheets, nextSheetId, writes, fetched, getFaults, destFaults>>
       /\ (CallStep /\ ~ManualDatesRejected(rp'.manualStartDate, rp'.manualEndDate)) =>
             rp'.pc = "get"
       /\ (rp.pc # "idle" /\ FaultStep) =>
             /\ rp'.pc = "idle"
             /\ rp'.result.status = "error"
             /\ TaskSetToError
             /\ UNCHANGED <<sheets, writes>>
       /\ (rp' # rp /\ rp'.pc = "idle") =>
             rp'.result.status \in {"done", "error"}]_vars

\* a call with the start after the end was refused while the spreadsheet
\* holds sheets and the host a task of the message
C25_Witness ==
    /\ rp.pc = "idle" /\ rp.calls > 0
    /\ rp.result = [status |-> "error",
                    message |-> "Start Date must be on or before End Date."]
    /\ rp.messageId \in DOMAIN tasks
    /\ tasks[rp.messageId].status = "error"
    /\ LOG_SHEET_NAME \in DOMAIN sheets

\* ids of the successful results of the macro-batch
SuccessfulNow == {r.data.messageId : r \in {x \in Range(parsedResults) : x.status = "success"}}

\* the sheets the macro-batch requires: the audit log and every month a
\* successful record touches
RequiredSheets == {LOG_SHEET_NAME} \cup UNION {MonthsOfBody(id) : id \in SuccessfulNow}

\* C26: in every macro-batch exactly the required sheets (the audit log and
\* the months of the successful records) that the structure just read lacks
\* are created, in one mutation; sheets that exist are neither created again
\* nor given a header again; and when the row mutation is built every month
\* of every successful record has its sheet id and row count, so that a row
\* request is built for each.
C26_ProvisionExactlyMissing ==
    [][/\ (pc = "structure" /\ pc' # "idle" /\ pc' # pc) =>
             /\ Range(sheetsToCreate') = RequiredSheets \ DOMAIN sheets
             /\ Len(sheetsToCreate') = Cardinality(Range(sheetsToCreate'))
             /\ pc' = IF RequiredSheets \subseteq DOMAIN sheets THEN "rowcount" ELSE "create"
             /\ DOMAIN existingSheets' = DOMAIN sheets
             /\ sheets' = sheets
       /\ (pc = "create" /\ pc' = "headers") =>
             /\ DOMAIN sheets' = DOMAIN sheets \cup (RequiredSheets \ DOMAIN sheets)
             /\ \A t \in DOMAIN sheets : sheets'[t] = sheets[t]
             /\ \A t \in DOMAIN sheets' \ DOMAIN sheets :
                   /\ sheets'[t].rows = <<>>
                   /\ \A u \in DOMAIN sheets' \ {t} : sheets'[u].sheetId # sheets'[t].sheetId
             /\ {h.sheetId : h \in Range(headerRequests')} =
                   {sheets'[t].sheetId : t \in DOMAIN sheets' \ DOMAIN sheets}
             /\ Len(headerRequests') = Cardinality(DOMAIN sheets' \ DOMAIN sheets)
       /\ (pc = "headers" /\ pc' = "rowcount") =>
             /\ DOMAIN sheets' = DOMAIN sheets
             /\ \A t \in DOMAIN sheets :
                   IF t \in Range(sheetsToCreate)
                   THEN sheets'[t].rows =
                           << IF t = LOG_SHEET_NAME THEN LogHeaderRow ELSE MonthHeaderRow >>
                   ELSE sheets'[t] = sheets[t]
       /\ (pc = "rowcount" /\ pc' \notin {"idle", "rowcount"}) =>
             /\ RequiredSheets \subseteq DOMAIN sheets
             /\ \A id \in SuccessfulNow : \A t \in MonthsOfBody(id) :
                   /\ t \in DOMAIN sheetState'
                   /\ sheetState'[t].sheetId = sheets[t].sheetId
                   /\ sheetState'[t].lastRow = ColumnALength(sheets[t].rows)
                   /\ Cardinality({i \in DOMAIN masterRequest' :
                          /\ masterRequest'[i].op = "updateCells"
                          /\ masterRequest'[i].sheetId = sheets[t].sheetId
                          /\ masterRequest'[i].src = id}) = 1]_vars

\* a macro-batch creates the sheets of its new months while sheets of
\* earlier macro-batches exist
C26_Witness ==
    /\ pc = "headers"
    /\ batchIndex = 1
    /\ \E t \in RequiredSheets : t \notin Range(sheetsToCreate) /\ t # LOG_SHEET_NAME
    /\ \E t \in Range(sheetsToCreate) : sheets[t].rows = <<>>

\* the month sheets that have their header row
ProvisionedMonths ==
    {t \in DOMAIN sheets \ {LOG_SHEET_NAME} :
        sheets[t].rows # <<>> /\ sheets[t].rows[1] = MonthHeaderRow}

\* C27: every provisioned month sheet has exactly one conditional-format
\* rule per value of the category enumeration, whatever the number of rows
\* written to it.
C27_RulesPerEnumerationValue ==
    \A t \in ProvisionedMonths : sheets[t].rules = Len(CategoryValues)

\* C28: a manual start date that does not parse is no override: with the
\* date filter enabled the run reads the audit log, and its query carries the
\* watermark of the log and its candidates exclude the ids of the log.
C28_InvalidManualDateFallsThrough ==
    (runs >= 1 /\ params.useDateFilter /\ params.manualStartDate # ""
       /\ ~ManualDateParses /\ pc \notin {"idle", "readlog"}) =>
       /\ TimesOfRows(CursorRowsAtStart) # {} =>
             gmailQuery.after = UnixSeconds(MaxOf(TimesOfRows(CursorRowsAtStart)))
       /\ processedIds = IdsOfRows(CursorRowsAtStart)
       /\ Range(allMessages) \cap IdsOfRows(CursorRowsAtStart) = {}

\* two row writes of different records on the same (sheet, offset)
Collide(w1, w2) == w1.title = w2.title /\ w1.rowIndex = w2.rowIndex /\ w1.src # w2.src

\* the row count a write was built from: the offset of the first row its
\* caller wrote to the sheet in the same mutation
CountRead(w) ==
    CHOOSE n \in 0..w.rowIndex :
       /\ \E v \in writes : v.run = w.run /\ v.batch = w.batch /\ v.title = w.title
                            /\ v.rowIndex = n
       /\ \A v \in writes : (v.run = w.run /\ v.batch = w.batch /\ v.title = w.title)
                            => v.rowIndex >= n

\* C29: with a run and a reprocessHeldEmailWithDates call interleaved, the
\* row count is read and the rows are written in separate steps with nothing
\* in between that reserves the offsets: a reprocess write goes to the row
\* count its call read, and whenever two writes collide the later one was
\* built from a row count read before the earlier one was executed (its
\* offset is below the row count the sheet has when it is executed).
C29_CollisionFromStaleCount ==
    /\ rp.pc \in {"write", "append"} =>
          \A i \in DOMAIN rp.masterRequest :
             rp.masterRequest[i].op = "updateCells" =>
                \E t \in DOMAIN rp.sheetState :
                   /\ rp.sheetState[t].sheetId = rp.masterRequest[i].sheetId
                   /\ rp.sheetState[t].lastRow = rp.masterRequest[i].rowIndex
    /\ \A w1, w2 \in writes :
          Collide(w1, w2) =>
             /\ (w1.run = 0) # (w2.run = 0)
             /\ CountRead(w1) < w1.rowsBefore \/ CountRead(w2) < w2.rowsBefore

\* a run and a reprocess call read the same row count of July 2025 and both
\* wrote: the row of the reprocessed message and a row of the run were put
\* at the same offset, and the sheet holds one of the two only
C29_Witness ==
    \E w1, w2 \in writes :
       /\ Collide(w1, w2)
       /\ w1.run = 0 /\ w2.run >= 1
       /\ CountRead(w1) = CountRead(w2)
       /\ pc = "idle" /\ rp.pc = "idle" /\ rp.result = [status |-> "done"]
       /\ outcome.kind = "returned"
       /\ {w1.src, w2.src} \cap
             {sheets[w1.title].rows[k].src :
                 k \in {j \in DOMAIN sheets[w1.title].rows :
                          "src" \in DOMAIN sheets[w1.title].rows[j]}} # {w1.src, w2.src}

\* the tasks the run queued that ended done
DoneNow == {id \in Range(allMessages) : tasks[id].status = "done"}

\* C30: when every external call returns successfully, a run that started
\* returns; the macro-batches run one after the other, ceil(n/10) of them for
\* n candidates; when it returns every queued task is done, held or error and
\* the returned count is the number of tasks that ended done.
C30_RunTerminates ==
    /\ [](pc # "idle" => <>RunReturned)
    /\ [][batchIndex' \in {0, batchIndex, batchIndex + 1}]_vars
    /\ [](RunReturned =>
            /\ allMessages # <<>> =>
                  /\ BATCH_SIZE * batchIndex < Len(allMessages)
                  /\ Len(allMessages) <= BATCH_SIZE * (batchIndex + 1)
            /\ \A id \in Range(allMessages) : tasks[id].status \in {"done", "held", "error"}
            /\ outcome.processed = Cardinality(DoneNow))

\* a run over twelve candidates returned after two macro-batches
C30_Witness ==
    /\ RunReturned
    /\ Len(allMessages) = 12 /\ batchIndex = 1
    /\ outcome.processed = 10
    /\ Cardinality(DoneNow) = 10

\* the rows of the table of the call whose first cell is the label of a field
RowsLabelled(f) ==
    {i \in DOMAIN params.table :
        /\ Len(params.table[i]) >= 2
        /\ textOf(trim(params.table[i][1])) \in DOMAIN keyMap
        /\ keyMap[textOf(trim(params.table[i][1]))] = f}

\* the trimmed text of the second cell of the last row labelled for a field
ValueLabelled(f) == textOf(trim(params.table[MaxOf(RowsLabelled(f))][2]))

\* C31: parseEmailBody returns for every table, and also when the DOM parser
\* throws, a record of exactly the eight fields, each a non-empty string; when
\* the table was read, each field is the trimmed text of the second cell of
\* the (last) row labelled for it, or 'Not Found' when there is no such row
\* or that text is empty.
C31_ParseEmailBodyTotal ==
    (pc = "returned" /\ params.fn = "parseEmailBody") =>
        /\ outcome.kind = "returned"
        /\ DOMAIN outcome.value = Fields
        /\ \A f \in Fields :
              /\ outcome.value[f] # ""
              /\ outcome.caught => outcome.value[f] = NotFound
              /\ ~outcome.caught =>
                    outcome.value[f] =
                        IF RowsLabelled(f) = {} \/ ValueLabelled(f) = ""
                        THEN NotFound ELSE ValueLabelled(f)

\* a table with a padded title, a row with an empty value for the venue and
\* no row for the other fields
C31_Witness ==
    /\ pc = "returned" /\ params.fn = "parseEmailBody" /\ ~outcome.caught
    /\ outcome.value["title"] = "Fair 2025"
    /\ RowsLabelled("venue") # {} /\ outcome.value["venue"] = NotFound
    /\ RowsLabelled("type") = {} /\ outcome.value["type"] = NotFound

\* the activities of the items without time and assignee, in output order
PlainActivities ==
    LET v == outcome.value
        RECURSIVE from(_)
        from(i) == IF i > Len(v) THEN <<>>
                   ELSE IF v[i].time = "" /\ v[i].inCharge = ""
                        THEN <<v[i].activity>> \o from(i + 1)
                        ELSE from(i + 1)
    IN  from(1)

\* the texts of the input lines among keep, in input order
LinesAmong(keep) ==
    LET RECURSIVE from(_)
        from(i) == IF i > Len(params.lines) THEN <<>>
                   ELSE IF i \in keep THEN <<textOf(params.lines[i])>> \o from(i + 1)
                        ELSE from(i + 1)
    IN  from(1)

\* the cleaned texts of the input lines among keep, in input order
CleanedAmong(keep) ==
    LET RECURSIVE from(_)
        from(i) == IF i > Len(params.lines) THEN <<>>
                   ELSE IF i \in keep
                        THEN <<textOf(clean(params.lines[i]))>> \o from(i + 1)
                        ELSE from(i + 1)
    IN  from(1)

FlowReturned == pc = "returned" /\ params.fn = "parseProgramFlow"

\* C32 as stated: the items without time and assignee are the non-empty
\* input lines that do not start with a time range, each once, in input order.
C32_UntimedLinesPassThrough ==
    FlowReturned =>
        PlainActivities =
            LinesAmong({i \in DOMAIN params.lines :
                          /\ params.lines[i] # <<>>
                          /\ ~HasTimeRange(clean(params.lines[i]))})

\* C32 amended: the untimed items are, in input order and each once, the
\* cleaned texts of the lines that are not blank after cleaning, do not
\* begin with the word "time" and do not start with a time range.
C32_UntimedCleanedLinesPassThrough ==
    FlowReturned =>
        PlainActivities =
            CleanedAmong({i \in DOMAIN params.lines :
                            /\ clean(params.lines[i]) # <<>>
                            /\ ~IsHeaderLine(clean(params.lines[i]))
                            /\ ~HasTimeRange(clean(params.lines[i]))})

\* a header line was skipped and two untimed lines came out in order
C32_Witness ==
    /\ FlowReturned
    /\ params.lines = << <<"Time", "keeping">>, <<"Time", " ", "Activity">> >>
    /\ PlainActivities = <<"Timekeeping">>

\* the audit-log rows that say the record of a message was processed
ProcessedRows == {r \in LogRowsAll : r.status \in {"Processed", "Processed (manual dates)"}}

\* the month sheets a row of the message was written to so far
AddressedFor(id) == {w.title : w \in {x \in writes : x.src = id}}

\* the month sheet holds a row of the message
RowPresent(id, title) ==
    /\ title \in DOMAIN sheets
    /\ \E k \in DOMAIN sheets[title].rows :
          /\ "src" \in DOMAIN sheets[title].rows[k]
          /\ sheets[title].rows[k].src = id

SetToDone == {id \in DOMAIN tasks' :
                 /\ tasks'[id].status = "done"
                 /\ id \in DOMAIN tasks => tasks[id].status # "done"}

\* C34: a step sets a task to done only if the task was writing and the
\* mutation executed by the run (or by the reprocess call) that sets it wrote
\* a row of the message to a month sheet.
C34_DoneOnlyAfterRowWritten ==
    [][\A id \in SetToDone :
          /\ id \in DOMAIN tasks /\ tasks[id].status = "writing"
          /\ \E w \in writes' :
                /\ w.src = id
                /\ IF rp.pc = "append" /\ rp'.pc = "idle"
                   THEN w.run = 0 /\ w.batch = rp.calls
                   ELSE w.run = runs']_vars

\* the messages whose task stands at error from the run before
ErroredBefore == {id \in DOMAIN tasks : tasks[id].status = "error"}

\* C35: a message that ended in error is not in the audit log, and when a
\* run with the date filter (and no manual start date) has listed its
\* candidates, every message that ended in error in the run before is one.
C35_ErroredIsCandidateAgain ==
    [][(pc = "list" /\ pc' # "list" /\ DefaultRun) =>
          \A id \in ErroredBefore :
             /\ id \notin LoggedIds
             /\ id \in Range(allMessages')]_vars

\* the matching messages that have no row in the audit log
UnloggedMatching == {id \in MessageIds : Mailbox[id].matches /\ id \notin LoggedIds}

\* the capped first run on the empty spreadsheet ends with the spreadsheet
\* that the later session starts from
CappedRunLeavesSheets ==
    (scenario = HugeScenario /\ runs = 1 /\ RunReturned /\ logAtStart = <<>>
       /\ outcome.processed = MAX_MESSAGES)
    => sheets = SheetsAfterCappedRun /\ nextSheetId = 3

\* C36: a date-filtered run that starts on the audit log a capped run left
\* behind and ends without candidates leaves no matching message unlogged:
\* the mailbox and the log being unchanged, every later date-filtered run
\* would list what this one listed.
C36_NothingLostToCap ==
    (DefaultRun /\ RunReturned /\ allMessages = <<>>
       /\ Len(logAtStart) > MAX_MESSAGES)
    => UnloggedMatching = {}

\* the sent dates of the messages the run found in the audit log
SentDatesLogged == {Mailbox[id].date : id \in processedIds}

\* C37: the timestamp of every audit-log row is the sent date of its message,
\* and the after: bound a date-filtered run derives from the log is the
\* newest sent date among the logged messages, also after a reprocessing.
C37_LogTimestampIsSentDate ==
    /\ \A r \in LogRowsAll : r.ts = Mailbox[r.id].date
    /\ (DefaultRun /\ pc \notin {"idle", "readlog"} /\ gmailQuery.after # NoBound) =>
          gmailQuery.after = UnixSeconds(MaxOf(SentDatesLogged))

\* the number of audit-log rows that carry the id
LogRowCount(id) ==
    Cardinality({k \in DOMAIN LogSheetRows :
                    /\ "id" \in DOMAIN LogSheetRows[k]
                    /\ LogSheetRows[k].id = id})

\* C38: each message id has at most one row in the audit log.
C38_OneLogRowPerId == \A id \in MessageIds : LogRowCount(id) <= 1

\* ids whose latest row in the audit log is a row on hold
StillHeldIds ==
    {id \in MessageIds :
        \E k \in DOMAIN LogSheetRows :
           /\ "id" \in DOMAIN LogSheetRows[k] /\ LogSheetRows[k].id = id
           /\ LogSheetRows[k].status = "Held (dates needed)"
           /\ \A j \in DOMAIN LogSheetRows :
                 (j > k /\ "id" \in DOMAIN LogSheetRows[j]) => LogSheetRows[j].id # id}

\* the step on which the final pass of a run emits its summary
FinalPassStep == pc = "summary" /\ pc' = "idle" /\ outcome'.finalRead = "ok"

\* C39: the final summary of a run lists exactly the messages that are still
\* on hold; a message held by an earlier run and reprocessed with manual
\* dates since is not listed again.
C39_SummaryListsStillHeld ==
    [][FinalPassStep =>
          {n.id : n \in Range(outcome'.heldNotice)} = StillHeldIds']_vars

\* the step on which a reprocessHeldEmailWithDates call writes its rows
ManualWriteStep == rp.pc = "write" /\ rp'.pc = "append"

\* an earlier call for the message has logged 'Processed (manual dates)'
\* (the calls of SpecManual all carry the same dates)
AlreadyReprocessed(id) ==
    \E k \in DOMAIN LogSheetRows :
       /\ "id" \in DOMAIN LogSheetRows[k] /\ LogSheetRows[k].id = id
       /\ LogSheetRows[k].status = "Processed (manual dates)"

\* the rows of every month bucket
BucketRows(sh) == [t \in DOMAIN sh \ {LOG_SHEET_NAME} |-> sh[t].rows]

\* first half of C40: a second call with the same message id and dates
\* leaves every month bucket as the first call left it
C40_SecondCallWritesNothing ==
    [][(ManualWriteStep /\ AlreadyReprocessed(rp.messageId))
          => BucketRows(sheets') = BucketRows(sheets)]_vars

\* second half of C40: a call writes rows only for a message whose status in
\* the audit log is held
C40_WritesOnlyForHeld ==
    [][ManualWriteStep /\ BucketRows(sheets') # BucketRows(sheets)
          => rp.messageId \in StillHeldIds]_vars

\* C40: reprocessHeldEmailWithDates is idempotent on the destination: two
\* calls with the same message id and dates leave every month bucket with the
\* rows one call leaves, and a call writes rows only for a message whose
\* status in the audit log is held.
C40_ReprocessIdempotent ==
    [][ManualWriteStep =>
          /\ AlreadyReprocessed(rp.messageId) => BucketRows(sheets') = BucketRows(sheets)
          /\ BucketRows(sheets') # BucketRows(sheets) => rp.messageId \in StillHeldIds]_vars
====
